---- MODULE Spec2Model ----
(***************************************************************************)
(* The Lamina evaluator (src/src/evaluator): values, the environment       *)
(* chain, the special-form dispatcher and closure application, as a state  *)
(* machine whose steps are top-level evaluations against the global        *)
(* environment of an interpreter instance of one thread.                   *)
(*                                                                         *)
(* Rc<RefCell<Environment>> handles are indices into the arena `envs`,     *)
(* Rc<dyn Fn> closures are indices into the arena `procs`.  A LaminaError  *)
(* message is a sequence of string pieces (format! concatenation).         *)
(* Every evaluation appends to `trace` what it did and the arena it saw.   *)
(***************************************************************************)
EXTENDS Integers, Sequences, FiniteSets, TLC

VARIABLES envs, procs, made, records, record_types, libraries, interpreters,
          result, trace, steps

vars == <<envs, procs, made, records, record_types, libraries, interpreters,
          result, trace, steps>>

\* number of top-level evaluations explored
MaxSteps == 2
\* nesting of closure applications the native stack is given
MaxDepth == 3

(***************************************************************************)
(* Value (src/src/value.rs)                                                *)
(***************************************************************************)
Nil == [t |-> "nil"]
Bool(b) == [t |-> "bool", v |-> b]
Num(n) == [t |-> "num", v |-> n]
Sym(s) == [t |-> "sym", v |-> s]
Cons(a, d) == [t |-> "pair", car |-> a, cdr |-> d]
Proc(id) == [t |-> "proc", id |-> id]
Str(s) == [t |-> "str", v |-> s]
\* Rc<Record> and Rc<RecordType> handles: indices into the arenas `records`
\* and `record_types`, with the immutable type name the Debug form shows
Record(id, name) == [t |-> "record", id |-> id, name |-> name]
RecordType(id, name) == [t |-> "record_type", id |-> id, name |-> name]
\* Number(NumberKind::Real(v)); Num is Number(NumberKind::Integer(v))
Real(v) == [t |-> "real", v |-> v]
\* Rc<RefCell<Library>>: a library object is told apart by its environment
Library(id, name) == [t |-> "library", id |-> id, name |-> name]

RECURSIVE ListTail(_, _)
ListTail(s, tail) ==
  IF Len(s) = 0 THEN tail ELSE Cons(Head(s), ListTail(Tail(s), tail))

List(s) == ListTail(s, Nil)

\* Environment { parent, bindings }; parent 0 is None
Environment(parent, bindings) == [parent |-> parent, bindings |-> bindings]

NoBindings == [n \in {} |-> Nil]

\* HashMap::insert
insert(b, name, value) ==
  [n \in (DOMAIN b) \cup {name} |-> IF n = name THEN value ELSE b[n]]

\* an insert that cuts the environment off its parent
bind_detach(es, env, name, value) ==
  [es EXCEPT ![env].bindings = insert(@, name, value), ![env].parent = 0]

bind(es, env, name, value) ==
  [es EXCEPT ![env].bindings = insert(@, name, value)]

(***************************************************************************)
(* Value equality (impl PartialEq for Value, src/src/value.rs)             *)
(***************************************************************************)
\* Value::Vector(Rc<Vec<Value>>), Value::Environment and Value::Bytevector;
\* the last two are handles like Proc and Record
Vector(elems) == [t |-> "vector", elems |-> elems]
EnvironmentValue(id) == [t |-> "environment", id |-> id]
Bytevector(id) == [t |-> "bytevector", id |-> id]

\* an equality that compares records by their type name
RECURSIVE eq_by_name(_, _)
eq_by_name(a, b) ==
  CASE a.t = "nil" /\ b.t = "nil" -> TRUE
    [] a.t = "bool" /\ b.t = "bool" -> a.v = b.v
    [] a.t \in {"num", "real"} /\ b.t \in {"num", "real"} ->
         a.t = b.t /\ a.v = b.v
    [] a.t = "str" /\ b.t = "str" -> a.v = b.v
    [] a.t = "sym" /\ b.t = "sym" -> a.v = b.v
    [] a.t = "pair" /\ b.t = "pair" ->
         eq_by_name(a.car, b.car) /\ eq_by_name(a.cdr, b.cdr)
    [] a.t = "vector" /\ b.t = "vector" ->
         IF Len(a.elems) # Len(b.elems) THEN FALSE
         ELSE \A i \in DOMAIN a.elems : eq_by_name(a.elems[i], b.elems[i])
    [] a.t = "proc" /\ b.t = "proc" -> FALSE
    [] a.t = "record" /\ b.t = "record" -> a.name = b.name
    [] a.t = b.t /\ a.t \in {"environment", "record_type", "bytevector",
                            "library"} -> a.id = b.id
    [] OTHER -> FALSE

\* PartialEq::eq; Rc::ptr_eq is equality of handles, and the derived
\* equality of NumberKind tells Integer from Real
RECURSIVE eq(_, _)
eq(a, b) ==
  CASE a.t = "nil" /\ b.t = "nil" -> TRUE
    [] a.t = "bool" /\ b.t = "bool" -> a.v = b.v
    [] a.t \in {"num", "real"} /\ b.t \in {"num", "real"} ->
         a.t = b.t /\ a.v = b.v
    [] a.t = "str" /\ b.t = "str" -> a.v = b.v
    [] a.t = "sym" /\ b.t = "sym" -> a.v = b.v
    [] a.t = "pair" /\ b.t = "pair" -> eq(a.car, b.car) /\ eq(a.cdr, b.cdr)
    [] a.t = "vector" /\ b.t = "vector" ->
         IF Len(a.elems) # Len(b.elems) THEN FALSE
         ELSE \A i \in DOMAIN a.elems : eq(a.elems[i], b.elems[i])
    [] a.t = "proc" /\ b.t = "proc" -> FALSE
    [] a.t = b.t /\ a.t \in {"environment", "record_type", "record",
                            "bytevector", "library"} -> a.id = b.id
    [] OTHER -> FALSE

(***************************************************************************)
(* Results: Result<Value, LaminaError> with the store threaded through     *)
(***************************************************************************)
Ok(v, st) == [ok |-> TRUE, val |-> v, err |-> <<>>, st |-> st]
Err(msg, st) == [ok |-> FALSE, val |-> Nil, err |-> msg, st |-> st]

\* Display of LaminaError::Runtime: "Runtime error: {0}"
to_string(msg) == <<"Runtime error: ">> \o msg

\* the text of a message: its pieces joined
RECURSIVE Flat(_)
Flat(msg) == IF Len(msg) = 0 THEN "" ELSE Head(msg) \o Flat(Tail(msg))

\* format!("{:?}", library_name) of a Vec<String>: ["a", "b"]
RECURSIVE DebugStrings(_)
DebugStrings(name) ==
  IF Len(name) = 0 THEN <<>>
  ELSE <<"\"", Head(name), "\"">>
       \o (IF Len(name) > 1 THEN <<", ">> ELSE <<>>)
       \o DebugStrings(Tail(name))

DebugName(name) == <<"[">> \o DebugStrings(name) \o <<"]">>

\* format!("{:?}", value): the Debug form of a Value, as pieces
RECURSIVE Debug(_)
Debug(v) ==
  CASE v.t = "nil" -> <<"Nil">>
    [] v.t = "bool" -> <<"Boolean(", IF v.v THEN "true" ELSE "false", ")">>
    [] v.t = "num" -> <<"Number(Integer(", ToString(v.v), "))">>
    [] v.t = "str" -> <<"String(", v.v, ")">>
    [] v.t = "sym" -> <<"Symbol(", v.v, ")">>
    [] v.t = "pair" -> (<<"Pair(">> \o Debug(v.car)) \o (<<", ">> \o Debug(v.cdr))
                         \o <<")">>
    [] v.t = "proc" -> <<"Procedure">>
    [] v.t = "record_type" -> <<"RecordType(", v.name, ")">>
    [] v.t = "record" -> <<"Record(", v.name, ")">>
    [] v.t = "real" -> <<"Number(Real(", ToString(v.v), ".0))">>
    [] v.t = "library" -> <<"Library(">> \o DebugName(v.name) \o <<")">>

Log(st, ev) == [st EXCEPT !.trace = Append(@, ev)]

Some(v) == [some |-> TRUE, val |-> v]
None == [some |-> FALSE, val |-> Nil]

(***************************************************************************)
(* Environment chain (src/src/evaluator/environment.rs)                    *)
(***************************************************************************)
\* a lookup that prefers the outermost binding of the chain
RECURSIVE lookup_variable_outer(_, _, _)
lookup_variable_outer(name, env, es) ==
  LET up == IF es[env].parent # 0
              THEN lookup_variable_outer(name, es[env].parent, es)
              ELSE None
  IN IF up.some THEN up
     ELSE IF name \in DOMAIN es[env].bindings
       THEN Some(es[env].bindings[name])
       ELSE None

RECURSIVE lookup_variable(_, _, _)
lookup_variable(name, env, es) ==
  IF name \in DOMAIN es[env].bindings
    THEN Some(es[env].bindings[name])
    ELSE IF es[env].parent # 0
      THEN lookup_variable(name, es[env].parent, es)
      ELSE None

lookup_symbol(name, env, st) ==
  LET r == lookup_variable(name, env, st.envs)
      st1 == Log(st, [op |-> "lookup", env |-> env, name |-> name,
                      ok |-> r.some, val |-> r.val, pre |-> st.envs])
  IN IF r.some THEN Ok(r.val, st1)
     ELSE Err(<<"Undefined variable: ", name>>, st1)

RECURSIVE eval_with_env(_, _, _)
RECURSIVE eval_pair(_, _, _)
RECURSIVE eval_procedure_call(_, _, _)
RECURSIVE eval_operands(_, _, _, _)
RECURSIVE eval_operands_rtl(_, _, _, _)
RECURSIVE call_procedure(_, _, _)
RECURSIVE lambda_closure(_, _, _, _)
RECURSIVE lambda_closure_reuse(_, _, _, _)
RECURSIVE define_closure(_, _, _, _)
RECURSIVE eval_begin(_, _, _, _)
RECURSIVE eval_begin_continue(_, _, _, _)
RECURSIVE eval_if(_, _, _)
RECURSIVE eval_if_strict(_, _, _)
RECURSIVE eval_cond(_, _, _)
RECURSIVE eval_with_exception_handler(_, _, _)
RECURSIVE eval_with_exception_handler_retry(_, _, _)
RECURSIVE eval_raise(_, _, _)
RECURSIVE eval_error(_, _, _)
RECURSIVE eval_guard(_, _, _)
RECURSIVE guard_clauses(_, _, _, _)
RECURSIVE eval_define(_, _, _)
RECURSIVE eval_set(_, _, _)
RECURSIVE eval_let(_, _, _)
RECURSIVE let_bindings(_, _, _, _)
RECURSIVE let_bindings_inner(_, _, _, _)
RECURSIVE eval_let_star(_, _, _)
RECURSIVE let_star_bindings(_, _, _, _)
RECURSIVE let_star_bindings_inplace(_, _, _, _)
RECURSIVE eval_letrec(_, _, _)
RECURSIVE letrec_bindings(_, _, _, _)
RECURSIVE library_definitions(_, _, _)
RECURSIVE library_second_pass(_, _, _)

(***************************************************************************)
(* Special forms (src/src/evaluator/special_forms.rs)                      *)
(***************************************************************************)
\* a lambda that captures a copy of the environment it is evaluated in
eval_lambda_snapshot(args, env, st) ==
  IF args.t = "pair"
    THEN IF args.cdr.t = "pair"
      THEN LET id == Len(st.procs) + 1
               copy == Len(st.envs) + 1
               clo == [kind |-> "lambda", params |-> args.car,
                       body |-> args.cdr.car, env |-> copy]
           IN Ok(Proc(id), [st EXCEPT !.procs = Append(@, clo),
                                      !.envs = Append(@, @[env])])
      ELSE Err(<<"Malformed lambda">>, st)
    ELSE Err(<<"Invalid lambda form">>, st)

eval_lambda(args, env, st) ==
  IF args.t = "pair"
    THEN IF args.cdr.t = "pair"
      THEN LET id == Len(st.procs) + 1
               clo == [kind |-> "lambda", params |-> args.car,
                       body |-> args.cdr.car, env |-> env]
           IN Ok(Proc(id), [st EXCEPT !.procs = Append(@, clo)])
      ELSE Err(<<"Malformed lambda">>, st)
    ELSE Err(<<"Invalid lambda form">>, st)

\* a parameter loop that gives a missing argument the empty list
RECURSIVE bind_params_lenient(_, _, _, _, _)
bind_params_lenient(param_list, arg_idx, args, new_env, es) ==
  IF param_list.t = "pair"
    THEN IF param_list.car.t = "sym"
      THEN bind_params_lenient(param_list.cdr, arg_idx + 1, args, new_env,
             bind(es, new_env, param_list.car.v,
                  IF arg_idx >= Len(args) THEN Nil ELSE args[arg_idx + 1]))
      ELSE bind_params_lenient(param_list.cdr, arg_idx + 1, args, new_env, es)
    ELSE [ok |-> TRUE, err |-> <<>>, es |-> es, rest |-> param_list]

\* the `while let Value::Pair(param_pair) = param_list` loop of both closures:
\* binds positionally, stops with an error at the first symbol without argument
RECURSIVE bind_params(_, _, _, _, _)
bind_params(param_list, arg_idx, args, new_env, es) ==
  IF param_list.t = "pair"
    THEN IF param_list.car.t = "sym"
      THEN IF arg_idx >= Len(args)
        THEN [ok |-> FALSE,
              err |-> <<"Too few arguments, expected ", ToString(arg_idx + 1),
                        " got ", ToString(Len(args))>>,
              es |-> es, rest |-> param_list]
        ELSE bind_params(param_list.cdr, arg_idx + 1, args, new_env,
                         bind(es, new_env, param_list.car.v, args[arg_idx + 1]))
      ELSE bind_params(param_list.cdr, arg_idx + 1, args, new_env, es)
    ELSE [ok |-> TRUE, err |-> <<>>, es |-> es, rest |-> param_list]

\* a constructor that populates every declared field, with the empty list
\* where it has no argument
RECURSIVE constructor_values_all(_, _, _, _, _)
constructor_values_all(i, constructor_fields, declared, args, values) ==
  IF i > Len(constructor_fields)
    THEN [n \in {declared[k][1] : k \in DOMAIN declared} \cup DOMAIN values |->
            IF n \in DOMAIN values THEN values[n] ELSE Nil]
    ELSE constructor_values_all(i + 1, constructor_fields, declared, args,
           IF \E k \in DOMAIN declared : declared[k][1] = constructor_fields[i]
             THEN insert(values, constructor_fields[i], args[i])
             ELSE values)

\* the loop of the constructor closure over its field list: the i-th
\* argument is inserted under the i-th constructor field when the record
\* type declares a field of that name
RECURSIVE constructor_values(_, _, _, _, _)
constructor_values(i, constructor_fields, declared, args, values) ==
  IF i > Len(constructor_fields) THEN values
  ELSE constructor_values(i + 1, constructor_fields, declared, args,
         IF \E k \in DOMAIN declared : declared[k][1] = constructor_fields[i]
           THEN insert(values, constructor_fields[i], args[i])
           ELSE values)

\* what a record procedure did, for the trace
Native(st, clo, args, r) ==
  Log(r.st, [op |-> "native", kind |-> clo.kind, proc |-> clo, args |-> args,
             ok |-> r.ok, val |-> r.val, err |-> r.err,
             pre |-> st.records, post |-> r.st.records])

\* the constructor closure of eval_define_record_type
constructor_proc(clo, args, st) ==
  IF Len(args) # Len(clo.constructor_fields)
    THEN Err(<<"Constructor ", clo.name, " requires ",
               ToString(Len(clo.constructor_fields)), " arguments, got ",
               ToString(Len(args))>>, st)
    ELSE LET type == st.record_types[clo.record_type]
             record == [type_info |-> clo.record_type,
                        values |-> constructor_values(1, clo.constructor_fields,
                                     type.fields, args, NoBindings)]
         IN Ok(Record(Len(st.records) + 1, type.name),
               [st EXCEPT !.records = Append(@, record)])

\* a predicate that takes every record for one of its type
predicate_proc_any(clo, args, st) ==
  IF Len(args) # 1
    THEN Err(<<"Predicate ", clo.name, " requires exactly 1 argument">>, st)
    ELSE Ok(Bool(args[1].t = "record"), st)

\* the predicate closure
predicate_proc(clo, args, st) ==
  IF Len(args) # 1
    THEN Err(<<"Predicate ", clo.name, " requires exactly 1 argument">>, st)
    ELSE IF args[1].t = "record"
      THEN Ok(Bool(st.record_types[st.records[args[1].id].type_info].name
                     = clo.type_name), st)
      ELSE Ok(Bool(FALSE), st)

\* the accessor closure of one field
accessor_proc(clo, args, st) ==
  IF Len(args) # 1
    THEN Err(<<"Accessor ", clo.name, " requires exactly 1 argument">>, st)
    ELSE IF args[1].t = "record"
      THEN LET record == st.records[args[1].id]
               name == st.record_types[record.type_info].name
           IN IF name # clo.type_name
                THEN Err(<<"Expected record of type ", clo.type_name, ", got ",
                           name>>, st)
                ELSE IF clo.field_name \in DOMAIN record.values
                  THEN Ok(record.values[clo.field_name], st)
                  ELSE Err(<<"Field ", clo.field_name, " not found in record">>, st)
      ELSE Err(<<"Expected record, got ">> \o Debug(args[1]), st)

\* a mutator that writes into a copy of the record
mutator_proc_copy(clo, args, st) ==
  IF Len(args) # 2
    THEN Err(<<"Mutator ", clo.name, " requires exactly 2 arguments">>, st)
    ELSE IF args[1].t = "record"
      THEN LET record == st.records[args[1].id]
               type == st.record_types[record.type_info]
           IN IF type.name # clo.type_name
                THEN Err(<<"Expected record of type ", clo.type_name, ", got ",
                           type.name>>, st)
                ELSE IF ~\E k \in DOMAIN type.fields :
                           type.fields[k] = <<clo.field_name, TRUE>>
                  THEN Err(<<"Field ", clo.field_name, " is not mutable">>, st)
                  ELSE Ok(Nil, [st EXCEPT !.records =
                            Append(@, [record EXCEPT !.values =
                                         insert(@, clo.field_name, args[2])])])
      ELSE Err(<<"Expected record, got ">> \o Debug(args[1]), st)

\* the mutator closure of one field
mutator_proc(clo, args, st) ==
  IF Len(args) # 2
    THEN Err(<<"Mutator ", clo.name, " requires exactly 2 arguments">>, st)
    ELSE IF args[1].t = "record"
      THEN LET record == st.records[args[1].id]
               type == st.record_types[record.type_info]
           IN IF type.name # clo.type_name
                THEN Err(<<"Expected record of type ", clo.type_name, ", got ",
                           type.name>>, st)
                ELSE IF ~\E k \in DOMAIN type.fields :
                           type.fields[k] = <<clo.field_name, TRUE>>
                  THEN Err(<<"Field ", clo.field_name, " is not mutable">>, st)
                  ELSE Ok(Nil, [st EXCEPT !.records[args[1].id].values =
                                  insert(@, clo.field_name, args[2])])
      ELSE Err(<<"Expected record, got ">> \o Debug(args[1]), st)

\* count_length / reverse_list of the (example list) procedures
RECURSIVE count_length(_)
count_length(list) ==
  IF list.t = "nil" THEN [ok |-> TRUE, n |-> 0]
  ELSE IF list.t = "pair"
    THEN LET tail_len == count_length(list.cdr)
         IN IF tail_len.ok THEN [ok |-> TRUE, n |-> 1 + tail_len.n] ELSE tail_len
    ELSE [ok |-> FALSE, n |-> 0]

RECURSIVE reverse_list(_, _)
reverse_list(list, acc) ==
  IF list.t = "nil" THEN [ok |-> TRUE, val |-> acc]
  ELSE IF list.t = "pair" THEN reverse_list(list.cdr, Cons(list.car, acc))
  ELSE [ok |-> FALSE, val |-> Nil]

\* the arithmetic of the numeric procedures built into import_library_bindings
example_number(name, value) ==
  CASE name = "square" -> value * value
    [] name = "cube" -> value * value * value
    [] name = "public-func" -> value + 10
    [] name = "derived-func" -> (value + 5) * 2
    [] name = "base-func" -> value * 2

\* p(args) for a procedure built into import_library_bindings
example_procedure(clo, args, st) ==
  IF Len(args) # 1
    THEN Err(<<clo.name, " requires exactly one argument">>, st)
    ELSE IF clo.name = "length"
      THEN LET count == count_length(args[1])
           IN IF count.ok THEN Ok(Num(count.n), st)
              ELSE Err(<<"length requires a list argument">>, st)
    ELSE IF clo.name = "reverse"
      THEN LET r == reverse_list(args[1], Nil)
           IN IF r.ok THEN Ok(r.val, st)
              ELSE Err(<<"reverse requires a list argument">>, st)
    ELSE IF args[1].t \in {"num", "real"}
      THEN Ok(Real(example_number(clo.name, args[1].v)), st)
      ELSE Err(<<clo.name, " requires a numeric argument">>, st)

\* p(args) for a procedure made by eval_define_record_type
record_procedure(clo, args, st) ==
  LET r == CASE clo.kind = "constructor" -> constructor_proc(clo, args, st)
             [] clo.kind = "predicate" -> predicate_proc(clo, args, st)
             [] clo.kind = "accessor" -> accessor_proc(clo, args, st)
             [] clo.kind = "mutator" -> mutator_proc(clo, args, st)
  IN [r EXCEPT !.st = Native(st, clo, args, r)]

\* a closure that binds its parameters in the captured environment itself
lambda_closure_reuse(id, clo, args, st) ==
  LET new_env == clo.env
      es0 == st.envs
      b == bind_params(clo.params, 0, args, new_env, es0)
      ev == [op |-> "apply", proc |-> id, new_env |-> new_env,
             args |-> args, pre |-> st.envs]
  IN IF ~b.ok
       THEN Err(b.err, [st EXCEPT !.envs = b.es])
       ELSE LET r0 == IF b.rest.t = "nil" THEN [ok |-> TRUE, es |-> b.es]
                      ELSE IF b.rest.t = "sym"
                        THEN [ok |-> TRUE, es |-> bind(b.es, new_env, b.rest.v, Nil)]
                        ELSE [ok |-> FALSE, es |-> b.es]
            IN IF ~r0.ok
                 THEN Err(<<"Invalid parameter list">>, [st EXCEPT !.envs = r0.es])
                 ELSE LET st1 == Log([st EXCEPT !.envs = r0.es],
                                     [ev EXCEPT !.pre = r0.es])
                          r == eval_with_env(clo.body, new_env, st1)
                      IN IF r.ok THEN r ELSE Err(to_string(r.err), r.st)

\* the closure built by eval_lambda, applied to args
lambda_closure(id, clo, args, st) ==
  LET new_env == Len(st.envs) + 1
      es0 == Append(st.envs, Environment(clo.env, NoBindings))
      b == bind_params(clo.params, 0, args, new_env, es0)
      ev == [op |-> "apply", proc |-> id, new_env |-> new_env,
             args |-> args, pre |-> st.envs]
  IN IF ~b.ok
       THEN Err(b.err, [st EXCEPT !.envs = b.es])
       ELSE LET r0 == IF b.rest.t = "nil" THEN [ok |-> TRUE, es |-> b.es]
                      ELSE IF b.rest.t = "sym"
                        THEN [ok |-> TRUE, es |-> bind(b.es, new_env, b.rest.v, Nil)]
                        ELSE [ok |-> FALSE, es |-> b.es]
            IN IF ~r0.ok
                 THEN Err(<<"Invalid parameter list">>, [st EXCEPT !.envs = r0.es])
                 ELSE LET st1 == Log([st EXCEPT !.envs = r0.es],
                                     [ev EXCEPT !.pre = r0.es])
                          r == eval_with_env(clo.body, new_env, st1)
                      IN IF r.ok THEN r ELSE Err(to_string(r.err), r.st)

\* the closure built by the (define (name . params) body) branch of eval_define
define_closure(id, clo, args, st) ==
  LET new_env == Len(st.envs) + 1
      es0 == Append(st.envs, Environment(clo.env, NoBindings))
      b == bind_params(clo.params, 0, args, new_env, es0)
      ev == [op |-> "apply", proc |-> id, new_env |-> new_env,
             args |-> args, pre |-> st.envs]
  IN IF ~b.ok
       THEN Err(b.err, [st EXCEPT !.envs = b.es])
       ELSE LET st1 == Log([st EXCEPT !.envs = b.es], [ev EXCEPT !.pre = b.es])
                r == eval_with_env(clo.body, new_env, st1)
            IN IF r.ok THEN r ELSE Err(to_string(r.err), r.st)

\* p(args) for a Value::Procedure; the native stack bounds the nesting
call_procedure(id, args, st) ==
  IF st.depth >= MaxDepth
    THEN Err(<<"stack overflow">>, [st EXCEPT !.overflow = TRUE])
    ELSE LET clo == st.procs[id]
             st1 == Log([st EXCEPT !.depth = @ + 1],
                        [op |-> "call", proc |-> id, args |-> args,
                         before |-> st.envs])
         IN CHOOSE res \in
              {[r EXCEPT !.st = Log([r.st EXCEPT !.depth = st.depth],
                        [op |-> "ret", call |-> Len(st.trace) + 1, ok |-> r.ok,
                         val |-> r.val, err |-> r.err, post |-> r.st.envs])] :
               r \in {IF clo.kind = "lambda" THEN lambda_closure(id, clo, args, st1)
                      ELSE IF clo.kind = "define"
                        THEN define_closure(id, clo, args, st1)
                        ELSE IF clo.kind = "example"
                          THEN example_procedure(clo, args, st1)
                          ELSE record_procedure(clo, args, st1)}} : TRUE

\* an if that takes the consequent only when the test is the boolean #t
eval_if_strict(args, env, st) ==
  IF args.t = "pair"
    THEN LET test == eval_with_env(args.car, env, st)
         IN IF ~test.ok THEN test
            ELSE IF args.cdr.t = "pair"
              THEN IF ~(test.val.t = "bool" /\ test.val.v = TRUE)
                THEN IF args.cdr.cdr.t = "pair"
                  THEN eval_with_env(args.cdr.cdr.car, env, test.st)
                  ELSE Ok(Nil, test.st)
                ELSE eval_with_env(args.cdr.car, env, test.st)
              ELSE Err(<<"Malformed if expression">>, test.st)
    ELSE Err(<<"Malformed if expression">>, st)

eval_if(args, env, st) ==
  IF args.t = "pair"
    THEN LET test == eval_with_env(args.car, env, st)
         IN IF ~test.ok THEN test
            ELSE IF args.cdr.t = "pair"
              THEN IF test.val.t = "bool" /\ test.val.v = FALSE
                THEN IF args.cdr.cdr.t = "pair"
                  THEN eval_with_env(args.cdr.cdr.car, env, test.st)
                  ELSE Ok(Nil, test.st)
                ELSE eval_with_env(args.cdr.car, env, test.st)
              ELSE Err(<<"Malformed if expression">>, test.st)
    ELSE Err(<<"Malformed if expression">>, st)

\* a define that overwrites the nearest existing binding of the chain
RECURSIVE NearestBinder(_, _, _)
NearestBinder(name, env, es) ==
  IF name \in DOMAIN es[env].bindings THEN env
  ELSE IF es[env].parent # 0 THEN NearestBinder(name, es[env].parent, es)
  ELSE 0

NearestOr(name, env, es) ==
  IF NearestBinder(name, env, es) = 0 THEN env ELSE NearestBinder(name, env, es)

eval_define_nearest(args, env, st) ==
  IF args.t = "pair"
    THEN IF args.car.t = "sym"
      THEN IF args.cdr.t = "pair"
        THEN LET value == eval_with_env(args.cdr.car, env, st)
             IN IF ~value.ok THEN value
                ELSE LET es == bind(value.st.envs,
                                    NearestOr(args.car.v, env, value.st.envs),
                                    args.car.v, value.val)
                         ev == [op |-> "define", env |-> env, name |-> args.car.v,
                                val |-> value.val, args |-> args,
                                nprocs |-> Len(value.st.procs),
                                pre |-> value.st.envs, post |-> es]
                     IN Ok(Nil, Log([value.st EXCEPT !.envs = es], ev))
        ELSE Err(<<"Malformed define">>, st)
      ELSE IF args.car.t = "pair"
        THEN IF args.car.car.t = "sym"
          THEN LET id == Len(st.procs) + 1
                   clo == [kind |-> "define", params |-> args.car.cdr,
                           body |-> args.cdr, env |-> env]
                   es == bind(st.envs, env, args.car.car.v, Proc(id))
                   ev == [op |-> "define", env |-> env, name |-> args.car.car.v,
                          val |-> Proc(id), args |-> args,
                          nprocs |-> Len(st.procs),
                          pre |-> st.envs, post |-> es]
               IN Ok(Nil, Log([st EXCEPT !.procs = Append(@, clo), !.envs = es], ev))
          ELSE Err(<<"First argument to define must be a symbol">>, st)
        ELSE Err(<<"First argument to define must be a symbol">>, st)
    ELSE Err(<<"Malformed define">>, st)

eval_define(args, env, st) ==
  IF args.t = "pair"
    THEN IF args.car.t = "sym"
      THEN IF args.cdr.t = "pair"
        THEN LET value == eval_with_env(args.cdr.car, env, st)
             IN IF ~value.ok THEN value
                ELSE LET es == bind(value.st.envs, env, args.car.v, value.val)
                         ev == [op |-> "define", env |-> env, name |-> args.car.v,
                                val |-> value.val, args |-> args,
                                nprocs |-> Len(value.st.procs),
                                pre |-> value.st.envs, post |-> es]
                     IN Ok(Nil, Log([value.st EXCEPT !.envs = es], ev))
        ELSE Err(<<"Malformed define">>, st)
      ELSE IF args.car.t = "pair"
        THEN IF args.car.car.t = "sym"
          THEN LET id == Len(st.procs) + 1
                   clo == [kind |-> "define", params |-> args.car.cdr,
                           body |-> args.cdr, env |-> env]
                   es == bind(st.envs, env, args.car.car.v, Proc(id))
                   ev == [op |-> "define", env |-> env, name |-> args.car.car.v,
                          val |-> Proc(id), args |-> args,
                          nprocs |-> Len(st.procs),
                          pre |-> st.envs, post |-> es]
               IN Ok(Nil, Log([st EXCEPT !.procs = Append(@, clo), !.envs = es], ev))
          ELSE Err(<<"First argument to define must be a symbol">>, st)
        ELSE Err(<<"First argument to define must be a symbol">>, st)
    ELSE Err(<<"Malformed define">>, st)

\* the `while target_env.is_none()` loop of eval_set: the first environment
\* of the chain that binds name, 0 when the chain is exhausted
\* a search that keeps walking and settles on the outermost binder
RECURSIVE find_target_env_outer(_, _, _)
find_target_env_outer(name, current, es) ==
  LET up == IF es[current].parent # 0
              THEN find_target_env_outer(name, es[current].parent, es)
              ELSE 0
  IN IF up # 0 THEN up
     ELSE IF name \in DOMAIN es[current].bindings THEN current ELSE 0

\* a search that settles on the last environment of an exhausted chain
RECURSIVE find_target_env_create(_, _, _)
find_target_env_create(name, current, es) ==
  IF name \in DOMAIN es[current].bindings
    THEN current
    ELSE IF es[current].parent # 0
      THEN find_target_env_create(name, es[current].parent, es)
      ELSE current

RECURSIVE find_target_env(_, _, _)
find_target_env(name, current, es) ==
  IF name \in DOMAIN es[current].bindings
    THEN current
    ELSE IF es[current].parent # 0
      THEN find_target_env(name, es[current].parent, es)
      ELSE 0

eval_set(args, env, st) ==
  IF args.t = "pair"
    THEN IF args.car.t = "sym"
      THEN IF args.cdr.t = "pair"
        THEN LET value == eval_with_env(args.cdr.car, env, st)
             IN IF ~value.ok THEN value
                ELSE LET name == args.car.v
                         target_env == find_target_env(name, env, value.st.envs)
                         r == IF target_env = 0
                                THEN Err(<<"Undefined variable: ", name>>, value.st)
                                ELSE Ok(Nil, [value.st EXCEPT !.envs =
                                       bind(@, target_env, name, value.val)])
                         ev == [op |-> "set", env |-> env, name |-> name,
                                val |-> value.val, ok |-> r.ok, err |-> r.err,
                                nprocs |-> Len(value.st.procs),
                                pre |-> value.st.envs, post |-> r.st.envs]
                     IN [r EXCEPT !.st = Log(r.st, ev)]
        ELSE Err(<<"Malformed set!">>, st)
      ELSE Err(<<"First argument to set! must be a symbol">>, st)
    ELSE Err(<<"Malformed set!">>, st)

\* the clause loop of eval_cond; args is what is left of the clause list
eval_cond(args, env, st) ==
  IF args.t = "pair"
    THEN IF args.car.t = "pair"
      THEN LET test == eval_with_env(args.car.car, env, st)
           IN IF ~test.ok THEN test
              ELSE IF test.val.t = "bool" /\ test.val.v = FALSE
                THEN eval_cond(args.cdr, env, test.st)
                ELSE IF args.car.cdr.t = "pair"
                  THEN eval_with_env(args.car.cdr.car, env, test.st)
                  ELSE Ok(test.val, test.st)
      ELSE IF args.car.t = "sym" /\ args.car.v = "else"
        THEN IF args.cdr.t = "pair"
          THEN eval_with_env(args.cdr.car, env, st)
          ELSE Ok(Nil, st)
        ELSE eval_cond(args.cdr, env, st)
    ELSE Ok(Nil, st)

\* a binding loop that evaluates each initializer in the new environment
let_bindings_inner(current, env, new_env, st) ==
  IF current.t = "pair"
    THEN IF current.car.t = "pair" /\ current.car.car.t = "sym"
      THEN IF current.car.cdr.t = "pair"
        THEN LET value == eval_with_env(current.car.cdr.car, new_env, st)
                 ev == [op |-> "init", new_env |-> new_env, in |-> new_env,
                        name |-> current.car.car.v, expr |-> current.car.cdr.car,
                        val |-> value.val]
             IN IF ~value.ok THEN value
                ELSE let_bindings_inner(current.cdr, env, new_env,
                       Log([value.st EXCEPT !.envs =
                              bind(@, new_env, current.car.car.v, value.val)], ev))
        ELSE Err(<<"Malformed binding in let">>, st)
      ELSE let_bindings_inner(current.cdr, env, new_env, st)
    ELSE Ok(Nil, st)

\* the `while let Value::Pair(binding_pair) = current` loop of eval_let
let_bindings(current, env, new_env, st) ==
  IF current.t = "pair"
    THEN IF current.car.t = "pair" /\ current.car.car.t = "sym"
      THEN IF current.car.cdr.t = "pair"
        THEN LET value == eval_with_env(current.car.cdr.car, env, st)
                 ev == [op |-> "init", new_env |-> new_env, in |-> env,
                        name |-> current.car.car.v, expr |-> current.car.cdr.car,
                        val |-> value.val]
             IN IF ~value.ok THEN value
                ELSE let_bindings(current.cdr, env, new_env,
                       Log([value.st EXCEPT !.envs =
                              bind(@, new_env, current.car.car.v, value.val)], ev))
        ELSE Err(<<"Malformed binding in let">>, st)
      ELSE let_bindings(current.cdr, env, new_env, st)
    ELSE Ok(Nil, st)

eval_let(args, env, st) ==
  IF args.t = "pair"
    THEN IF args.cdr.t = "pair"
      THEN LET new_env == Len(st.envs) + 1
               st0 == Log([st EXCEPT !.envs = Append(@, Environment(env, NoBindings))],
                          [op |-> "letbegin", new_env |-> new_env, outer |-> env,
                           args |-> args])
               b == let_bindings(args.car, env, new_env, st0)
           IN IF ~b.ok THEN b
              ELSE eval_with_env(args.cdr.car, new_env,
                     Log(b.st, [op |-> "letbody", new_env |-> new_env,
                                outer |-> env, pre |-> b.st.envs]))
      ELSE Err(<<"Malformed let">>, st)
    ELSE Err(<<"Malformed let">>, st)

\* a let* loop that inserts each binding into the environment it has
let_star_bindings_inplace(current, current_env, id, st) ==
  IF current.t = "pair"
    THEN IF current.car.t = "pair" /\ current.car.car.t = "sym"
      THEN IF current.car.cdr.t = "pair"
        THEN LET value == eval_with_env(current.car.cdr.car, current_env, st)
                 es == bind(value.st.envs, current_env, current.car.car.v, value.val)
                 ev == [op |-> "starinit", star |-> id, in |-> current_env,
                        new_env |-> current_env, name |-> current.car.car.v,
                        expr |-> current.car.cdr.car, val |-> value.val,
                        from |-> Len(st.trace), before |-> st.envs,
                        pre |-> value.st.envs, post |-> es]
             IN IF ~value.ok
                  THEN [ok |-> FALSE, env |-> current_env, err |-> value.err,
                        st |-> value.st]
                  ELSE let_star_bindings_inplace(current.cdr, current_env, id,
                         Log([value.st EXCEPT !.envs = es], ev))
        ELSE [ok |-> FALSE, env |-> current_env,
              err |-> <<"Malformed binding in let*">>, st |-> st]
      ELSE let_star_bindings_inplace(current.cdr, current_env, id, st)
    ELSE [ok |-> TRUE, env |-> current_env, err |-> <<>>, st |-> st]

\* the binding loop of eval_let_star: each initializer is evaluated in
\* current_env, then a new child of current_env holding the one binding
\* becomes current_env
let_star_bindings(current, current_env, id, st) ==
  IF current.t = "pair"
    THEN IF current.car.t = "pair" /\ current.car.car.t = "sym"
      THEN IF current.car.cdr.t = "pair"
        THEN LET value == eval_with_env(current.car.cdr.car, current_env, st)
                 new_env == Len(value.st.envs) + 1
                 es == Append(value.st.envs,
                              Environment(current_env,
                                insert(NoBindings, current.car.car.v, value.val)))
                 ev == [op |-> "starinit", star |-> id, in |-> current_env,
                        new_env |-> new_env, name |-> current.car.car.v,
                        expr |-> current.car.cdr.car, val |-> value.val,
                        from |-> Len(st.trace), before |-> st.envs,
                        pre |-> value.st.envs, post |-> es]
             IN IF ~value.ok
                  THEN [ok |-> FALSE, env |-> current_env, err |-> value.err,
                        st |-> value.st]
                  ELSE let_star_bindings(current.cdr, new_env, id,
                         Log([value.st EXCEPT !.envs = es], ev))
        ELSE [ok |-> FALSE, env |-> current_env,
              err |-> <<"Malformed binding in let*">>, st |-> st]
      ELSE let_star_bindings(current.cdr, current_env, id, st)
    ELSE [ok |-> TRUE, env |-> current_env, err |-> <<>>, st |-> st]

eval_let_star(args, env, st) ==
  IF args.t = "pair"
    THEN IF args.cdr.t = "pair"
      THEN LET id == Len(st.trace) + 1
               st0 == Log(st, [op |-> "starbegin", outer |-> env, args |-> args,
                               pre |-> st.envs])
               b == let_star_bindings(args.car, env, id, st0)
           IN IF ~b.ok THEN Err(b.err, b.st)
              ELSE eval_with_env(args.cdr.car, b.env,
                     Log(b.st, [op |-> "starbody", star |-> id, env |-> b.env,
                                pre |-> b.st.envs]))
      ELSE Err(<<"Malformed let*">>, st)
    ELSE Err(<<"Malformed let*">>, st)

\* a first pass that binds nothing
RECURSIVE letrec_placeholders_none(_, _, _)
letrec_placeholders_none(current, new_env, es) ==
  IF current.t = "pair"
    THEN letrec_placeholders_none(current.cdr, new_env, es)
    ELSE es

\* first pass of eval_letrec: every name is bound to Value::Nil
RECURSIVE letrec_placeholders(_, _, _)
letrec_placeholders(current, new_env, es) ==
  IF current.t = "pair"
    THEN IF current.car.t = "pair" /\ current.car.car.t = "sym"
      THEN letrec_placeholders(current.cdr, new_env,
                               bind(es, new_env, current.car.car.v, Nil))
      ELSE letrec_placeholders(current.cdr, new_env, es)
    ELSE es

\* second pass of eval_letrec: each initializer is evaluated in new_env and
\* its value inserted at once
letrec_bindings(current, env, new_env, st) ==
  IF current.t = "pair"
    THEN IF current.car.t = "pair" /\ current.car.car.t = "sym"
      THEN IF current.car.cdr.t = "pair"
        THEN LET value == eval_with_env(current.car.cdr.car, new_env, st)
                 es == bind(value.st.envs, new_env, current.car.car.v, value.val)
                 ev == [op |-> "recinit", new_env |-> new_env, in |-> new_env,
                        name |-> current.car.car.v, expr |-> current.car.cdr.car,
                        val |-> value.val, from |-> Len(st.trace),
                        before |-> st.envs, pre |-> value.st.envs, post |-> es]
             IN IF ~value.ok THEN value
                ELSE letrec_bindings(current.cdr, env, new_env,
                       Log([value.st EXCEPT !.envs = es], ev))
        ELSE Err(<<"Malformed binding in letrec">>, st)
      ELSE letrec_bindings(current.cdr, env, new_env, st)
    ELSE Ok(Nil, st)

eval_letrec(args, env, st) ==
  IF args.t = "pair"
    THEN IF args.cdr.t = "pair"
      THEN LET new_env == Len(st.envs) + 1
               es == letrec_placeholders(args.car, new_env,
                       Append(st.envs, Environment(env, NoBindings)))
               st0 == Log([st EXCEPT !.envs = es],
                          [op |-> "recbegin", new_env |-> new_env, outer |-> env,
                           args |-> args, pre |-> st.envs, post |-> es])
               b == letrec_bindings(args.car, env, new_env, st0)
           IN IF ~b.ok THEN b
              ELSE eval_with_env(args.cdr.car, new_env,
                     Log(b.st, [op |-> "recbody", new_env |-> new_env,
                                outer |-> env, pre |-> b.st.envs]))
      ELSE Err(<<"Malformed letrec">>, st)
    ELSE Err(<<"Malformed letrec">>, st)

\* a handler form that hands a failure of the handler to the handler again
eval_with_exception_handler_retry(args, env, st) ==
  IF args.t = "pair"
    THEN LET handler == eval_with_env(args.car, env, st)
         IN IF ~handler.ok THEN handler
            ELSE IF args.cdr.t = "pair"
              THEN LET thunk == eval_with_env(args.cdr.car, env, handler.st)
                   IN IF ~thunk.ok THEN thunk
                      ELSE IF thunk.val.t = "proc"
                        THEN LET f == call_procedure(thunk.val.id, <<>>,
                                        Log(thunk.st, [op |-> "thunk",
                                                       form |-> Len(st.trace),
                                                       proc |-> thunk.val.id]))
                             IN IF f.ok THEN f
                                ELSE IF handler.val.t = "proc"
                                  THEN LET exception == Sym(Flat(f.err))
                                           h == call_procedure(handler.val.id,
                                                  <<exception>>,
                                                  Log(f.st, [op |-> "handle",
                                                        form |-> Len(st.trace),
                                                        proc |-> handler.val.id,
                                                        arg |-> exception,
                                                        cause |-> f.err]))
                                           h2 == call_procedure(handler.val.id,
                                                   <<Sym(Flat(h.err))>>,
                                                   Log(h.st, [op |-> "handle",
                                                         form |-> Len(st.trace),
                                                         proc |-> handler.val.id,
                                                         arg |-> Sym(Flat(h.err)),
                                                         cause |-> h.err]))
                                       IN IF h.ok THEN h
                                          ELSE IF h2.ok THEN h2
                                          ELSE Err(h2.err, h2.st)
                                  ELSE Err(<<"Handler must be a procedure">>, f.st)
                        ELSE Err(<<"Thunk must be a procedure">>, thunk.st)
              ELSE Err(<<"with-exception-handler requires a handler and a thunk">>,
                       handler.st)
    ELSE Err(<<"with-exception-handler requires a handler and a thunk">>, st)

eval_with_exception_handler(args, env, st) ==
  IF args.t = "pair"
    THEN LET handler == eval_with_env(args.car, env, st)
         IN IF ~handler.ok THEN handler
            ELSE IF args.cdr.t = "pair"
              THEN LET thunk == eval_with_env(args.cdr.car, env, handler.st)
                   IN IF ~thunk.ok THEN thunk
                      ELSE IF thunk.val.t = "proc"
                        THEN LET f == call_procedure(thunk.val.id, <<>>,
                                        Log(thunk.st, [op |-> "thunk",
                                                       form |-> Len(st.trace),
                                                       proc |-> thunk.val.id]))
                             IN IF f.ok THEN f
                                ELSE IF handler.val.t = "proc"
                                  THEN LET exception == Sym(Flat(f.err))
                                           h == call_procedure(handler.val.id,
                                                  <<exception>>,
                                                  Log(f.st, [op |-> "handle",
                                                        form |-> Len(st.trace),
                                                        proc |-> handler.val.id,
                                                        arg |-> exception,
                                                        cause |-> f.err]))
                                       IN IF h.ok THEN h ELSE Err(h.err, h.st)
                                  ELSE Err(<<"Handler must be a procedure">>, f.st)
                        ELSE Err(<<"Thunk must be a procedure">>, thunk.st)
              ELSE Err(<<"with-exception-handler requires a handler and a thunk">>,
                       handler.st)
    ELSE Err(<<"with-exception-handler requires a handler and a thunk">>, st)

eval_raise(args, env, st) ==
  IF args.t = "pair"
    THEN LET exception == eval_with_env(args.car, env, st)
             err == <<"Exception: ">> \o Debug(exception.val)
         IN IF ~exception.ok THEN exception
            ELSE Err(err, Log(exception.st, [op |-> "raise", env |-> env,
                                             val |-> exception.val, err |-> err]))
    ELSE Err(<<"raise requires an argument">>, st)

eval_error(args, env, st) ==
  IF args.t = "pair"
    THEN LET message == eval_with_env(args.car, env, st)
             error_msg == IF message.val.t = "str" THEN <<message.val.v>>
                          ELSE Debug(message.val)
         IN IF ~message.ok THEN message
            ELSE Err(<<"Error: ">> \o error_msg, message.st)
    ELSE Err(<<"error requires an argument">>, st)

\* e.starts_with("Exception: "): of the messages the evaluator builds only
\* the one of raise begins with this text, and it is its first piece
starts_with_exception(e) == Len(e) > 0 /\ e[1] = "Exception: "

\* e.trim_start_matches("Exception: ")
RECURSIVE trim_start_matches_exception(_)
trim_start_matches_exception(e) ==
  IF starts_with_exception(e) THEN trim_start_matches_exception(Tail(e)) ELSE e

\* the clause loop of eval_guard; current is what is left of the clauses
guard_clauses(current, guard_env, exception_value, st) ==
  IF current.t = "pair"
    THEN IF current.car.t = "pair"
      THEN LET test == eval_with_env(current.car.car, guard_env, st)
           IN IF ~test.ok THEN test
              ELSE IF test.val.t = "bool"
                THEN IF test.val.v /\ current.car.cdr.t = "pair"
                  THEN eval_with_env(current.car.cdr.car, guard_env, test.st)
                  ELSE guard_clauses(current.cdr, guard_env, exception_value,
                                     test.st)
                ELSE Err(<<"Guard test must evaluate to a boolean">>, test.st)
      ELSE IF current.car.t = "sym" /\ current.car.v = "else"
                /\ current.cdr.t = "pair"
        THEN IF current.cdr.car.t = "pair"
          THEN eval_with_env(current.cdr.car.car, guard_env, st)
          ELSE eval_with_env(current.cdr.car, guard_env, st)
        ELSE guard_clauses(current.cdr, guard_env, exception_value, st)
    ELSE Err(<<"Unhandled exception: ">> \o Debug(exception_value), st)

eval_guard(args, env, st) ==
  IF args.t = "pair" /\ args.car.t = "pair"
    THEN IF args.car.car.t = "sym"
      THEN IF args.cdr.t = "pair"
        THEN LET body == eval_with_env(args.cdr.car, env, st)
                 guard_env == Len(body.st.envs) + 1
                 exception_value ==
                   IF starts_with_exception(body.err)
                     THEN Sym(Flat(trim_start_matches_exception(body.err)))
                     ELSE Sym(Flat(body.err))
                 es == Append(body.st.envs,
                              Environment(env, insert(NoBindings, args.car.car.v,
                                                      exception_value)))
                 ev == [op |-> "guard", form |-> Len(st.trace),
                        guard_env |-> guard_env, outer |-> env,
                        var |-> args.car.car.v, val |-> exception_value,
                        cause |-> body.err, pre |-> body.st.envs, post |-> es]
             IN IF body.ok THEN body
                ELSE guard_clauses(args.car.cdr, guard_env, exception_value,
                                   Log([body.st EXCEPT !.envs = es], ev))
        ELSE Err(<<"Malformed guard expression">>, st)
      ELSE Err(<<"Guard variable must be a symbol">>, st)
    ELSE Err(<<"Malformed guard expression">>, st)

\* the `while let Value::Pair(param_pair) = current` loop over the
\* parameters of the constructor specification
RECURSIVE constructor_params(_, _)
constructor_params(current, constructor_fields) ==
  IF current.t = "pair"
    THEN IF current.car.t = "sym"
      THEN constructor_params(current.cdr, Append(constructor_fields, current.car.v))
      ELSE [ok |-> FALSE, fields |-> constructor_fields]
    ELSE [ok |-> TRUE, fields |-> constructor_fields]

\* the `while let Value::Pair(field_pair) = current` loop over the field
\* specifications: (field_name, accessor, mutator) of each
RECURSIVE field_specs(_, _)
field_specs(current, fields) ==
  IF current.t = "pair"
    THEN IF current.car.t = "pair"
      THEN IF current.car.car.t # "sym"
        THEN [ok |-> FALSE, err |-> <<"Field name must be a symbol">>,
              fields |-> fields]
        ELSE IF current.car.cdr.t = "pair"
          THEN IF current.car.cdr.car.t # "sym"
            THEN [ok |-> FALSE, err |-> <<"Accessor must be a symbol">>,
                  fields |-> fields]
            ELSE IF current.car.cdr.cdr.t = "pair"
                      /\ current.car.cdr.cdr.car.t # "sym"
              THEN [ok |-> FALSE, err |-> <<"Mutator must be a symbol">>,
                    fields |-> fields]
              ELSE field_specs(current.cdr,
                     Append(fields,
                       [name |-> current.car.car.v,
                        accessor |-> current.car.cdr.car.v,
                        mutator |-> IF current.car.cdr.cdr.t = "pair"
                                      THEN Some(current.car.cdr.cdr.car.v)
                                      ELSE None]))
          ELSE [ok |-> FALSE,
                err |-> <<"Field specification must include an accessor">>,
                fields |-> fields]
      ELSE [ok |-> FALSE, err |-> <<"Invalid field specification">>,
            fields |-> fields]
    ELSE [ok |-> TRUE, err |-> <<>>, fields |-> fields]

\* the `for (field_name, accessor_name, mutator_name) in fields` loop: the
\* closures it creates, and the (name, proc) lists accessors and mutators
RECURSIVE field_procedures(_, _, _, _)
field_procedures(fields, i, type_name, acc) ==
  IF i > Len(fields) THEN acc
  ELSE LET f == fields[i]
           a == Len(acc.procs) + 1
           with_accessor ==
             [acc EXCEPT !.procs = Append(@, [kind |-> "accessor",
                                               name |-> f.accessor,
                                               field_name |-> f.name,
                                               type_name |-> type_name]),
                         !.accessors = Append(@, <<f.accessor, Proc(a)>>)]
       IN field_procedures(fields, i + 1, type_name,
            IF f.mutator.some
              THEN [with_accessor EXCEPT
                      !.procs = Append(@, [kind |-> "mutator",
                                           name |-> f.mutator.val,
                                           field_name |-> f.name,
                                           type_name |-> type_name]),
                      !.mutators = Append(@, <<f.mutator.val, Proc(a + 1)>>)]
              ELSE with_accessor)

\* `for (name, proc) in list { env.borrow_mut().bindings.insert(name, proc) }`
RECURSIVE insert_each(_, _, _)
insert_each(es, env, list) ==
  IF Len(list) = 0 THEN es
  ELSE insert_each(bind(es, env, Head(list)[1], Head(list)[2]), env, Tail(list))

eval_define_record_type(args, env, st) ==
  IF args.t = "pair"
    THEN IF args.car.t # "sym"
      THEN Err(<<"Record type name must be a symbol">>, st)
      ELSE IF args.cdr.t = "pair"
        THEN LET type_name == args.car.v
                 ctor == args.cdr.car
                 cf == IF ctor.t = "pair" THEN constructor_params(ctor.cdr, <<>>)
                       ELSE [ok |-> TRUE, fields |-> <<>>]
                 fs == field_specs(args.cdr.cdr.cdr, <<>>)
             IN IF ctor.t = "pair" /\ ctor.car.t # "sym"
                  THEN Err(<<"Constructor name must be a symbol">>, st)
                ELSE IF ctor.t \notin {"sym", "pair"}
                  THEN Err(<<"Invalid constructor specification">>, st)
                ELSE IF ~cf.ok
                  THEN Err(<<"Constructor parameter must be a symbol">>, st)
                ELSE IF args.cdr.cdr.t # "pair"
                  THEN Err(<<"Malformed record type definition">>, st)
                ELSE IF args.cdr.cdr.car.t # "sym"
                  THEN Err(<<"Predicate must be a symbol">>, st)
                ELSE IF ~fs.ok THEN Err(fs.err, st)
                ELSE
                  LET constructor == IF ctor.t = "sym" THEN ctor.v ELSE ctor.car.v
                      predicate == args.cdr.cdr.car.v
                      record_type == Len(st.record_types) + 1
                      c == Len(st.procs) + 1
                      made2 == field_procedures(fs.fields, 1, type_name,
                                 [procs |-> st.procs \o
                                    <<[kind |-> "constructor",
                                       name |-> constructor,
                                       record_type |-> record_type,
                                       constructor_fields |-> cf.fields],
                                      [kind |-> "predicate",
                                       name |-> predicate,
                                       type_name |-> type_name]>>,
                                  accessors |-> <<>>, mutators |-> <<>>])
                      es == insert_each(st.envs, env,
                              <<<<type_name, RecordType(record_type, type_name)>>,
                                <<constructor, Proc(c)>>,
                                <<predicate, Proc(c + 1)>>>>
                              \o made2.accessors \o made2.mutators)
                  IN Ok(Nil,
                        Log([st EXCEPT
                               !.record_types =
                                 Append(@, [name |-> type_name,
                                            fields |-> [k \in DOMAIN fs.fields |->
                                              <<fs.fields[k].name,
                                                fs.fields[k].mutator.some>>]]),
                               !.procs = made2.procs,
                               !.envs = es],
                            [op |-> "record_type", env |-> env,
                             record_type |-> record_type, name |-> type_name,
                             constructor |-> c, predicate |-> c + 1,
                             constructor_fields |-> cf.fields,
                             fields |-> fs.fields,
                             accessors |-> made2.accessors,
                             mutators |-> made2.mutators,
                             pre |-> st.envs, post |-> es]))
        ELSE Err(<<"Malformed record type definition">>, st)
    ELSE Err(<<"Malformed record type definition">>, st)

(***************************************************************************)
(* Libraries (src/src/evaluator/libraries.rs, library_manager.rs)          *)
(***************************************************************************)
\* the `while let Value::Pair(pair) = current` loops that collect the
\* symbols of a list: the library name and the names of an export form
RECURSIVE symbols_of(_, _)
symbols_of(current, names) ==
  IF current.t = "pair"
    THEN symbols_of(current.cdr,
                    IF current.car.t = "sym" THEN Append(names, current.car.v)
                    ELSE names)
    ELSE names

RECURSIVE extract_library_name(_, _)
extract_library_name(expr, name) ==
  IF expr.t = "pair"
    THEN LET first == IF expr.car.t = "sym" THEN Append(name, expr.car.v)
                      ELSE IF expr.car.t = "pair"
                        THEN extract_library_name(expr.car, name)
                        ELSE name
         IN IF expr.cdr.t = "pair" THEN extract_library_name(expr.cdr, first)
            ELSE first
    ELSE IF expr.t = "sym" THEN Append(name, expr.v)
    ELSE name

\* the libraries whose import is answered by procedures built into
\* import_library_bindings, with the names each of them answers for
ExampleLibraries ==
  {<<"example", "math">>, <<"example", "list">>, <<"example", "private">>,
   <<"example", "derived">>, <<"example", "base">>}

ExampleProcedures(name) ==
  CASE name = <<"example", "math">> -> <<"square", "cube">>
    [] name = <<"example", "list">> -> <<"length", "reverse">>
    [] name = <<"example", "private">> -> <<"public-func">>
    [] name = <<"example", "derived">> -> <<"derived-func">>
    [] name = <<"example", "base">> -> <<"base-func">>

\* the built-in procedures are inserted for the names the library exports
RECURSIVE insert_examples(_, _, _, _, _)
insert_examples(names, exports, target_env, es, ps) ==
  IF Len(names) = 0 THEN [envs |-> es, procs |-> ps]
  ELSE IF \E k \in DOMAIN exports : exports[k] = Head(names)
    THEN insert_examples(Tail(names), exports, target_env,
           bind(es, target_env, Head(names), Proc(Len(ps) + 1)),
           Append(ps, [kind |-> "example", name |-> Head(names)]))
    ELSE insert_examples(Tail(names), exports, target_env, es, ps)

\* an import that binds every name of the library's own table
copy_exports_all(exports, lib_env, target_env, es) ==
  [es EXCEPT ![target_env].bindings =
     [n \in DOMAIN @ \cup DOMAIN es[lib_env].bindings |->
        IF n \in DOMAIN es[lib_env].bindings THEN es[lib_env].bindings[n]
        ELSE @[n]]]

\* `for export in exports`: the binding the library's own table has for the
\* name is inserted into the target; a name it does not have is skipped
RECURSIVE copy_exports(_, _, _, _)
copy_exports(exports, lib_env, target_env, es) ==
  IF Len(exports) = 0 THEN es
  ELSE copy_exports(Tail(exports), lib_env, target_env,
         IF Head(exports) \in DOMAIN es[lib_env].bindings
           THEN bind(es, target_env, Head(exports),
                     es[lib_env].bindings[Head(exports)])
           ELSE es)

import_library_bindings(library, target_env, st) ==
  LET ex == insert_examples(ExampleProcedures(library.name), library.exports,
                            target_env, st.envs, st.procs)
      st1 == IF library.name \in ExampleLibraries
               THEN [st EXCEPT !.envs = ex.envs, !.procs = ex.procs]
               ELSE [st EXCEPT !.envs = copy_exports(library.exports,
                                          library.environment, target_env, @)]
  IN Ok(Nil, Log(st1, [op |-> "import", name |-> library.name,
                       exports |-> library.exports,
                       lib_env |-> library.environment,
                       target_env |-> target_env,
                       pre |-> st.envs, post |-> st1.envs]))

\* get_library: the registry entry of the name
get_library(name, st) ==
  IF name \in DOMAIN st.libraries THEN Some(st.libraries[name]) ELSE None

\* the body of the loop of eval_import for one library name
import_named(library_name, env, st) ==
  LET library == get_library(library_name, st)
  IN IF library.some THEN import_library_bindings(library.val, env, st)
     ELSE Err(<<"Library not found: ">> \o DebugName(library_name),
              Log(st, [op |-> "notfound", name |-> library_name,
                       target_env |-> env]))

RECURSIVE eval_import(_, _, _)
eval_import(args, env, st) ==
  IF args.t = "pair"
    THEN LET r == IF args.car.t = "sym" THEN import_named(<<args.car.v>>, env, st)
                  ELSE IF args.car.t = "pair"
                    THEN import_named(extract_library_name(args.car, <<>>), env, st)
                    ELSE Err(<<"Invalid import specification: ">>
                               \o Debug(args.car), st)
         IN IF ~r.ok THEN r ELSE eval_import(args.cdr, env, r.st)
    ELSE Ok(Nil, st)

\* first pass of eval_define_library, the import declarations: each
\* specification is imported into the library environment at once
RECURSIVE library_imports(_, _, _)
library_imports(import_current, library_env, st) ==
  IF import_current.t = "pair"
    THEN LET r == eval_import(Cons(import_current.car, Nil), library_env, st)
         IN IF ~r.ok THEN r
            ELSE library_imports(import_current.cdr, library_env, r.st)
    ELSE Ok(Nil, st)

\* first pass of eval_define_library: collects the exports and performs the
\* imports, declaration by declaration
RECURSIVE library_first_pass(_, _, _, _)
library_first_pass(temp_current, library_env, exports, st) ==
  IF temp_current.t = "pair"
    THEN LET declaration == temp_current.car
             is_form(n) == /\ declaration.t = "pair"
                           /\ declaration.car.t = "sym"
                           /\ declaration.car.v = n
         IN IF is_form("export")
              THEN library_first_pass(temp_current.cdr, library_env,
                     symbols_of(declaration.cdr, exports), st)
            ELSE IF is_form("import")
              THEN LET r == library_imports(declaration.cdr, library_env, st)
                   IN IF ~r.ok
                        THEN [ok |-> FALSE, err |-> r.err, exports |-> exports,
                              st |-> r.st]
                        ELSE library_first_pass(temp_current.cdr, library_env,
                                                exports, r.st)
            ELSE library_first_pass(temp_current.cdr, library_env, exports, st)
    ELSE [ok |-> TRUE, err |-> <<>>, exports |-> exports, st |-> st]

\* the definitions of one (begin ...) declaration, each evaluated in the
\* library environment
library_definitions(begin_current, library_env, st) ==
  IF begin_current.t = "pair"
    THEN LET r == eval_with_env(begin_current.car, library_env, st)
         IN IF ~r.ok THEN r
            ELSE library_definitions(begin_current.cdr, library_env, r.st)
    ELSE Ok(Nil, st)

\* second pass of eval_define_library: the begin declarations
library_second_pass(current, library_env, st) ==
  IF current.t = "pair"
    THEN IF /\ current.car.t = "pair"
            /\ current.car.car.t = "sym"
            /\ current.car.car.v = "begin"
      THEN LET r == library_definitions(current.car.cdr, library_env, st)
           IN IF ~r.ok THEN r
              ELSE library_second_pass(current.cdr, library_env, r.st)
      ELSE library_second_pass(current.cdr, library_env, st)
    ELSE Ok(Nil, st)

\* register_library: the registry entry of the name is replaced
register_library(library, st) ==
  [st EXCEPT !.libraries = insert(@, library.name, library)]

eval_define_library(args, env, st) ==
  IF args.t = "pair"
    THEN LET library_name == symbols_of(args.car, <<>>)
             library_env == Len(st.envs) + 1
             st0 == [st EXCEPT !.envs = Append(@, Environment(env, NoBindings))]
             registered(second, exports) ==
               LET library == [name |-> library_name, exports |-> exports,
                               imports |-> <<>>, environment |-> library_env]
               IN Ok(Library(library_env, library_name),
                     Log(register_library(library, second.st),
                         [op |-> "library", name |-> library_name,
                          library |-> library, env |-> env,
                          pre |-> st.libraries, before |-> st.envs,
                          envs |-> second.st.envs]))
         IN CHOOSE res \in
              {IF ~first.ok THEN Err(first.err, first.st)
               ELSE CHOOSE res2 \in
                      {IF ~second.ok THEN second
                       ELSE registered(second, first.exports) :
                       second \in {library_second_pass(args.cdr, library_env,
                                                       first.st)}} : TRUE :
               first \in {library_first_pass(args.cdr, library_env, <<>>, st0)}} :
              TRUE
    ELSE Err(<<"Malformed define-library">>, st)

(***************************************************************************)
(* The dispatcher (src/src/evaluator/mod.rs)                               *)
(***************************************************************************)
\* a begin that goes on with the next expression after a failure
eval_begin_continue(current, env, st, res) ==
  IF current.t = "pair"
    THEN LET r == eval_with_env(current.car, env, st)
         IN eval_begin_continue(current.cdr, env, r.st, r.val)
    ELSE Ok(res, st)

\* the `while let Value::Pair(begin_pair) = current` loop of "begin"
eval_begin(current, env, st, res) ==
  IF current.t = "pair"
    THEN LET r == eval_with_env(current.car, env, st)
         IN IF ~r.ok THEN r ELSE eval_begin(current.cdr, env, r.st, r.val)
    ELSE Ok(res, st)

\* an operand loop that evaluates the last operand first
eval_operands_rtl(current, env, st, args) ==
  IF current.t = "pair"
    THEN LET rest == eval_operands_rtl(current.cdr, env, st, <<>>)
         IN IF ~rest.ok THEN rest
            ELSE LET arg == eval_with_env(current.car, env, rest.st)
                 IN IF ~arg.ok
                      THEN [ok |-> FALSE, args |-> args, err |-> arg.err,
                            st |-> arg.st]
                      ELSE [ok |-> TRUE, args |-> (args \o <<arg.val>>) \o rest.args,
                            err |-> <<>>, st |-> arg.st]
    ELSE [ok |-> TRUE, args |-> args, err |-> <<>>, st |-> st]

\* the `while let Value::Pair(arg_pair) = current` loop of eval_procedure_call
eval_operands(current, env, st, args) ==
  IF current.t = "pair"
    THEN LET arg == eval_with_env(current.car, env, st)
         IN IF ~arg.ok THEN [ok |-> FALSE, args |-> args, err |-> arg.err, st |-> arg.st]
            ELSE eval_operands(current.cdr, env, arg.st, Append(args, arg.val))
    ELSE [ok |-> TRUE, args |-> args, err |-> <<>>, st |-> st]

eval_procedure_call(expr, env, st) ==
  LET proc == eval_with_env(expr.car, env, st)
  IN IF ~proc.ok THEN proc
     ELSE LET a == eval_operands(expr.cdr, env, proc.st, <<>>)
          IN IF ~a.ok THEN Err(a.err, a.st)
             ELSE IF proc.val.t = "proc"
               THEN call_procedure(proc.val.id, a.args,
                                   Log(a.st, [op |-> "invoke", env |-> env,
                                              proc |-> proc.val.id]))
               ELSE Err(<<"Not a procedure">>, a.st)

\* history: made[id] is the environment whose evaluation created closure id
Made(r, env) ==
  [r EXCEPT !.st.made =
     @ \o [k \in 1..(Len(r.st.procs) - Len(@)) |-> env]]

eval_pair(expr, env, st) ==
  IF expr.car.t = "sym"
    THEN CASE expr.car.v = "quote" ->
                IF expr.cdr.t = "pair" THEN Ok(expr.cdr.car, st)
                ELSE Err(<<"Malformed quote">>, st)
           [] expr.car.v = "lambda" -> Made(eval_lambda(expr.cdr, env, st), env)
           [] expr.car.v = "if" -> eval_if(expr.cdr, env, st)
           [] expr.car.v = "define" -> Made(eval_define(expr.cdr, env, st), env)
           [] expr.car.v = "set!" -> eval_set(expr.cdr, env, st)
           [] expr.car.v = "cond" -> eval_cond(expr.cdr, env, st)
           [] expr.car.v = "let" -> eval_let(expr.cdr, env, st)
           [] expr.car.v = "let*" -> eval_let_star(expr.cdr, env, st)
           [] expr.car.v = "letrec" -> eval_letrec(expr.cdr, env, st)
           [] expr.car.v = "begin" -> eval_begin(expr.cdr, env, st, Nil)
           [] expr.car.v = "with-exception-handler" ->
                eval_with_exception_handler(expr.cdr, env, st)
           [] expr.car.v = "raise" -> eval_raise(expr.cdr, env, st)
           [] expr.car.v = "error" -> eval_error(expr.cdr, env, st)
           [] expr.car.v = "guard" -> eval_guard(expr.cdr, env, st)
           [] expr.car.v = "define-record-type" ->
                Made(eval_define_record_type(expr.cdr, env, st), env)
           [] expr.car.v = "define-library" ->
                Made(eval_define_library(expr.cdr, env, st), env)
           [] expr.car.v = "import" -> eval_import(expr.cdr, env, st)
           [] OTHER -> eval_procedure_call(expr, env, st)
    ELSE eval_procedure_call(expr, env, st)

\* every evaluation is bracketed in the trace by an "eval" event and the
\* "done" event that carries its outcome; lvl is the nesting of evaluations
eval_with_env(expr, env, st0) ==
  LET st == Log([st0 EXCEPT !.lvl = @ + 1],
                [op |-> "eval", expr |-> expr, env |-> env, lvl |-> st0.lvl + 1])
  IN CHOOSE res \in
       {[ok |-> r.ok, val |-> r.val, err |-> r.err,
         st |-> Log([r.st EXCEPT !.lvl = st0.lvl],
                    [op |-> "done", start |-> Len(st0.trace) + 1, ok |-> r.ok,
                     val |-> r.val, err |-> r.err])] :
        r \in {IF expr.t = "sym" THEN lookup_symbol(expr.v, env, st)
               ELSE IF expr.t = "pair" THEN eval_pair(expr, env, st)
               ELSE Ok(expr, st)}} : TRUE

(***************************************************************************)
(* The interpreter                                                         *)
(***************************************************************************)
\* setup_initial_env: the parentless global environment with its constants
GlobalEnv ==
  Environment(0, [n \in {"#t", "#f", "else"} |->
                    IF n = "#f" THEN Bool(FALSE) ELSE Bool(TRUE)])

Init ==
  /\ envs = <<GlobalEnv>>
  /\ procs = <<>>
  /\ made = <<>>
  /\ records = <<>>
  /\ record_types = <<>>
  /\ libraries = NoBindings
  /\ interpreters = <<1>>
  /\ result = [ok |-> TRUE, val |-> Nil, err |-> <<>>]
  /\ trace = <<>>
  /\ steps = 0

\* Interpreter::eval: one expression evaluated against the global
\* environment of the instance; the evaluation runs to completion before the
\* next one starts.  The registry LIBRARIES is a static of the thread.
RunIn(i, prog) ==
  /\ steps < MaxSteps
  /\ \E r \in {eval_with_env(prog, interpreters[i],
                     [envs |-> envs, procs |-> procs, made |-> made,
                      records |-> records, record_types |-> record_types,
                      libraries |-> libraries, trace |-> <<>>,
                      depth |-> 0, lvl |-> 0, overflow |-> FALSE])} :
        /\ ~r.st.overflow
        /\ envs' = r.st.envs
        /\ procs' = r.st.procs
        /\ made' = r.st.made
        /\ records' = r.st.records
        /\ record_types' = r.st.record_types
        /\ libraries' = r.st.libraries
        /\ trace' = r.st.trace
        /\ result' = [ok |-> r.ok, val |-> r.val, err |-> r.err]
  /\ steps' = steps + 1
  /\ UNCHANGED interpreters

\* an evaluation through the first interpreter instance
Run(prog) == RunIn(1, prog)

(***************************************************************************)
(* Programs.  A form is evaluated at top level or inside the scopes a      *)
(* program can put around it: a let, two nested lets, a closure body.      *)
(***************************************************************************)
Begin(s) == Cons(Sym("begin"), List(s))
Let(bs, body) == List(<<Sym("let"), List(bs), body>>)
Lambda(params, body) == List(<<Sym("lambda"), params, body>>)
Define(n, e) == List(<<Sym("define"), Sym(n), e>>)
SetBang(n, e) == List(<<Sym("set!"), Sym(n), e>>)
B1(n, e) == List(<<Sym(n), e>>)

Scopes == {"top", "let", "letlet", "shadow", "closure"}

InScope(c, form) ==
  CASE c = "top" -> form
    [] c = "let" -> Let(<<B1("x", Num(1))>>, Begin(<<form, Sym("x")>>))
    [] c = "letlet" ->
         Let(<<B1("x", Num(1))>>,
             Begin(<<Let(<<B1("y", Num(2))>>, Begin(<<form, Sym("x")>>)), Sym("x")>>))
    [] c = "shadow" ->
         Let(<<B1("x", Num(1))>>,
             Begin(<<Sym("x"),
                     Let(<<B1("x", Num(2))>>, Begin(<<form, Sym("x")>>)),
                     Sym("x")>>))
    [] c = "closure" ->
         List(<<Lambda(List(<<Sym("y")>>), Begin(<<form, Sym("y")>>)), Num(2)>>)

Vars == {"x", "y"}

EvalDefine ==
  \E c \in Scopes, n \in Vars, v \in {3, 4} : Run(InScope(c, Define(n, Num(v))))

EvalSet ==
  \E c \in Scopes, n \in Vars : Run(InScope(c, SetBang(n, Num(5))))

EvalSymbol ==
  \E c \in Scopes, n \in Vars : Run(InScope(c, Sym(n)))

Next == EvalDefine \/ EvalSet \/ EvalSymbol

Spec == Init /\ [][Next]_vars

(***************************************************************************)
(* Closures: f is made by lambda, by the define shorthand, or by a lambda  *)
(* inside a let, always after (define x 3); it is then called with zero to *)
(* three arguments from several caller scopes.                             *)
(***************************************************************************)
DefineProc(n, params, body) ==
  List(<<Sym("define"), Cons(Sym(n), params), body>>)

ParamsAndBodies ==
  { <<Nil, Sym("x")>>,
    <<List(<<Sym("a")>>), Sym("a")>>,
    <<List(<<Sym("a"), Sym("b")>>), SetBang("x", Sym("b"))>>,
    <<ListTail(<<Sym("a")>>, Sym("b")), Sym("b")>>,
    <<List(<<Sym("a")>>),
      List(<<Sym("if"), Sym("a"),
             Begin(<<List(<<Sym("f"), Bool(FALSE)>>), Sym("a")>>),
             Sym("x")>>)>> }

Makers == {"lambda", "sugar", "nested"}

Make(m, pb) ==
  Begin(<<Define("x", Num(3)),
          CASE m = "lambda" -> Define("f", Lambda(pb[1], pb[2]))
            [] m = "sugar" -> DefineProc("f", pb[1], pb[2])
            [] m = "nested" ->
                 Define("f", Let(<<B1("y", Num(1))>>, Lambda(pb[1], pb[2])))>>)

ArgLists == {<<>>, <<Num(1)>>, <<Num(1), Num(2)>>, <<Num(1), Num(2), Num(7)>>}

Callers == {"top", "let", "afterset", "afterdefine"}

CallFrom(c, call) ==
  CASE c = "top" -> call
    [] c = "let" -> Let(<<B1("x", Num(2))>>, call)
    [] c = "afterset" -> Begin(<<SetBang("x", Num(5)), call>>)
    [] c = "afterdefine" -> Begin(<<Define("x", Num(4)), call>>)

MakeClosure ==
  \E m \in Makers, pb \in ParamsAndBodies : Run(Make(m, pb))

CallClosure ==
  \E c \in Callers, a \in ArgLists : Run(CallFrom(c, Cons(Sym("f"), List(a))))

NextProc == MakeClosure \/ CallClosure

SpecProc == Init /\ [][NextProc]_vars

(***************************************************************************)
(* let: two bindings whose initializers are a literal or a reference to    *)
(* one of the two names, at top level or inside an enclosing let, after    *)
(* top-level defines of the same names.                                    *)
(***************************************************************************)
Inits == {Num(1), Sym("x"), Sym("y")}

SetupDefine ==
  \E n \in Vars, v \in {3, 4} : Run(Define(n, Num(v)))

EvalLet ==
  \E c \in {"top", "let"}, e1 \in Inits, e2 \in Inits, body \in Vars :
    Run(InScope(c, Let(<<B1("x", e1), B1("y", e2)>>, Sym(body))))

NextLet == SetupDefine \/ EvalLet

SpecLet == Init /\ [][NextLet]_vars

(***************************************************************************)
(* let* and letrec over the same bindings as let                           *)
(***************************************************************************)
LetStar(bs, body) == List(<<Sym("let*"), List(bs), body>>)
LetRec(bs, body) == List(<<Sym("letrec"), List(bs), body>>)

EvalLetStar ==
  \E c \in {"top", "let"}, e1 \in Inits, e2 \in Inits, body \in Vars :
    Run(InScope(c, LetStar(<<B1("x", e1), B1("y", e2)>>, Sym(body))))

NextStar == SetupDefine \/ EvalLetStar

SpecStar == Init /\ [][NextStar]_vars

EvalLetRec ==
  \E c \in {"top", "let"}, e1 \in Inits, e2 \in Inits, body \in Vars :
    Run(InScope(c, LetRec(<<B1("x", e1), B1("y", e2)>>, Sym(body))))

\* two procedures that call each other, the first defined before the second
EvalMutual ==
  \E a \in BOOLEAN, v \in {1, 2} :
    Run(LetRec(<<B1("f", Lambda(List(<<Sym("n")>>),
                         List(<<Sym("if"), Sym("n"),
                                List(<<Sym("g"), Bool(FALSE)>>), Num(v)>>))),
                 B1("g", Lambda(List(<<Sym("n")>>),
                         List(<<Sym("f"), Sym("n")>>)))>>,
               List(<<Sym("f"), Bool(a)>>)))

NextRec == SetupDefine \/ EvalLetRec \/ EvalMutual

SpecRec == Init /\ [][NextRec]_vars

(***************************************************************************)
(* Control: if, cond and begin over tests of every kind of value and       *)
(* branches that write a variable, so that an evaluation shows.            *)
(***************************************************************************)
If(s) == Cons(Sym("if"), List(s))
Cond(cs) == Cons(Sym("cond"), List(cs))
Quote(v) == List(<<Sym("quote"), v>>)

\* #t, #f, a number, the empty list, a variable, an unbound variable
Tests == {Bool(TRUE), Bool(FALSE), Num(0), Quote(Nil), Sym("x"), Sym("z")}

EvalIf ==
  \E t \in Tests, alt \in BOOLEAN, c \in {"top", "let"} :
    Run(InScope(c, If(<<t, SetBang("x", Num(5))>>
                        \o IF alt THEN <<Define("y", Num(4))>> ELSE <<>>)))

NextCtl == SetupDefine \/ EvalIf

SpecCtl == Init /\ [][NextCtl]_vars

\* cond at top level or where a let rebinds the name else
CondScope(c, form) ==
  CASE c = "top" -> form
    [] c = "else" -> Let(<<B1("else", Bool(FALSE))>>, form)

SecondClauses ==
  {<<>>, <<List(<<Sym("else"), Define("y", Num(4))>>)>>,
   <<List(<<Bool(FALSE), Define("y", Num(4))>>)>>,
   <<List(<<Num(0), Define("y", Num(4))>>)>>}

EvalCond ==
  \E t \in {Bool(TRUE), Bool(FALSE), Num(0), Sym("z")}, c2 \in SecondClauses,
     c \in {"top", "else"} :
    Run(CondScope(c, Cond(<<List(<<t, SetBang("x", Num(5))>>)>> \o c2)))

NextCond == SetupDefine \/ EvalCond

SpecCond == Init /\ [][NextCond]_vars

\* begin over writes, a failing reference and a literal
Elems == {SetBang("x", Num(5)), Define("y", Num(4)), Sym("z"), Num(1)}

EvalBegin ==
  \E c \in {"top", "let"} :
    \/ Run(InScope(c, Begin(<<>>)))
    \/ \E e1 \in Elems, e2 \in Elems : Run(InScope(c, Begin(<<e1, e2>>)))

NextSeq == SetupDefine \/ EvalBegin

SpecSeq == Init /\ [][NextSeq]_vars

\* application: the operator is a procedure, a number, a variable holding a
\* number, or unbound; the operands write and read variables or fail
DefineF ==
  Run(Define("f", Lambda(List(<<Sym("a")>>), Sym("a"))))

Operands ==
  {<<>>, <<SetBang("x", Num(5))>>, <<Sym("x"), SetBang("x", Num(5))>>,
   <<Define("y", Num(4)), Sym("y")>>, <<Sym("z"), SetBang("x", Num(5))>>}

EvalApply ==
  \E op \in {Sym("f"), Num(1), Sym("x"), Sym("z")}, as \in Operands,
     c \in {"top", "let"} :
    Run(InScope(c, Cons(op, List(as))))

NextApp == SetupDefine \/ DefineF \/ EvalApply

SpecApp == Init /\ [][NextApp]_vars

(***************************************************************************)
(* Exceptions: with-exception-handler over thunks that raise a symbol or a *)
(* number, return, or fail otherwise, and handlers that return their       *)
(* argument, return a constant, or fail.                                   *)
(***************************************************************************)
Raise(e) == List(<<Sym("raise"), e>>)
Thunk(body) == Lambda(Nil, body)
WithHandler(h, t) == List(<<Sym("with-exception-handler"), h, t>>)

Handlers ==
  {Lambda(List(<<Sym("e")>>), Sym("e")),
   Lambda(List(<<Sym("e")>>), SetBang("x", Num(5))),
   Lambda(List(<<Sym("e")>>), Raise(Sym("e")))}

Bodies == {Raise(Quote(Sym("boom"))), Raise(Num(7)), Num(2), Sym("z")}

EvalHandler ==
  \E h \in Handlers, b \in Bodies, c \in {"top", "let"} :
    Run(InScope(c, WithHandler(h, Thunk(b))))

NextHandler == SetupDefine \/ EvalHandler

SpecHandler == Init /\ [][NextHandler]_vars

\* guard over the same bodies, with clause lists that end in else, select
\* by #t, test a number, leave a later test unevaluated, or match nothing
Guard(var, clauses, body) ==
  List(<<Sym("guard"), Cons(Sym(var), List(clauses)), body>>)

ClauseLists ==
  {<<List(<<Sym("else"), Sym("e")>>)>>,
   <<List(<<Bool(FALSE), Num(1)>>), List(<<Bool(TRUE), Sym("e")>>)>>,
   <<List(<<Num(0), Num(1)>>)>>,
   <<List(<<Bool(TRUE), Sym("e")>>), List(<<Sym("z"), Num(3)>>)>>,
   <<List(<<Bool(FALSE), Num(1)>>)>>}

EvalGuard ==
  \E cl \in ClauseLists, b \in Bodies, c \in {"top", "else"} :
    Run(CondScope(c, Guard("e", cl, b)))

NextGuard == SetupDefine \/ EvalGuard

SpecGuard == Init /\ [][NextGuard]_vars

\* a guard whose clauses may match nothing, as the body of a guard or of the
\* thunk of a with-exception-handler that hand on what they receive
NoMatch ==
  {<<>>,
   <<List(<<Bool(FALSE), Num(1)>>)>>,
   <<List(<<Bool(TRUE), Sym("e")>>)>>}

Outers == {"guard", "handler"}

Enclose(o, inner) ==
  CASE o = "guard" -> Guard("o", <<List(<<Bool(TRUE), Sym("o")>>)>>, inner)
    [] o = "handler" ->
         WithHandler(Lambda(List(<<Sym("o")>>), Sym("o")), Thunk(inner))

EvalUnhandled ==
  \E o \in Outers, cl \in NoMatch, b \in Bodies :
    Run(Enclose(o, Guard("e", cl, b)))

NextUnhandled == SetupDefine \/ EvalUnhandled

SpecUnhandled == Init /\ [][NextUnhandled]_vars

(***************************************************************************)
(* Records: two record types, a second type of the name point, and the     *)
(* generated procedures applied to fresh records and to a number.          *)
(***************************************************************************)
Call(f, args) == Cons(Sym(f), List(args))

FieldSpec(s) == List([k \in DOMAIN s |-> Sym(s[k])])

DefineRecordType(name, ctor, pred, fields) ==
  List(<<Sym("define-record-type"), Sym(name), ctor, Sym(pred)>> \o fields)

PointType ==
  DefineRecordType("point", Call("make-point", <<Sym("x"), Sym("y")>>), "point?",
    <<FieldSpec(<<"x", "point-x", "set-point-x!">>),
      FieldSpec(<<"y", "point-y">>),
      FieldSpec(<<"z", "point-z", "set-point-z!">>)>>)

OtherType ==
  DefineRecordType("other", Call("make-other", <<Sym("x")>>), "other?",
    <<FieldSpec(<<"x", "other-x", "set-other-x!">>)>>)

PointAgain ==
  DefineRecordType("point", Call("make-pt", <<Sym("x")>>), "pt?",
    <<FieldSpec(<<"x", "pt-x", "set-pt-x!">>)>>)

Constructions ==
  {Call("make-point", <<Num(5), Num(6)>>),
   Call("make-point", <<Num(5)>>),
   Call("make-point", <<Num(5), Num(6), Num(7)>>),
   Call("make-other", <<Num(8)>>),
   Call("make-pt", <<Num(9)>>),
   Num(42)}

DefineRecords ==
  \E ts \in {<<PointType, OtherType>>, <<PointType, OtherType, PointAgain>>} :
    Run(Begin(ts))

EvalRecord ==
  \E f \in {"point-x", "point-y", "point-z", "other-x", "pt-x",
            "point?", "other?", "pt?"},
     c \in Constructions :
    Run(Call(f, <<c>>))

NextRecord == DefineRecords \/ EvalRecord

SpecRecord == Init /\ [][NextRecord]_vars

\* records kept in variables: p and q are the same record, r has equal
\* contents, o and t are of the other types
DefinePoints ==
  \E again \in BOOLEAN :
    Run(Begin(<<PointType, OtherType>>
              \o (IF again THEN <<PointAgain>> ELSE <<>>)
              \o <<Define("p", Call("make-point", <<Num(5), Num(6)>>)),
                   Define("q", Sym("p")),
                   Define("r", Call("make-point", <<Num(5), Num(6)>>)),
                   Define("o", Call("make-other", <<Num(8)>>))>>
              \o (IF again THEN <<Define("t", Call("make-pt", <<Num(9)>>))>>
                  ELSE <<>>)))

Reads ==
  {Call("point-x", <<Sym("q")>>), Call("point-x", <<Sym("r")>>),
   Call("point-y", <<Sym("p")>>), Call("point-z", <<Sym("q")>>),
   Call("other-x", <<Sym("o")>>)}

EvalMutator ==
  \E m \in {"set-point-x!", "set-point-z!", "set-other-x!", "set-pt-x!"},
     target \in {Sym("p"), Sym("o"), Sym("t"), Num(42)}, read \in Reads :
    Run(Begin(<<Call(m, <<target, Num(7)>>), read>>))

NextMutate == DefinePoints \/ EvalMutator

SpecMutate == Init /\ [][NextMutate]_vars

(***************************************************************************)
(* Library programs: (define-library L (export e...) (begin defs...)),     *)
(* (import L) at top level or in a let that binds a name of the library,  *)
(* and references to the library's names from the importing environment.  *)
(***************************************************************************)
Symbols(names) == List([k \in DOMAIN names |-> Sym(names[k])])

DefineLibrary(name, decls) ==
  Cons(Sym("define-library"), Cons(Symbols(name), List(decls)))

Export(names) == Cons(Sym("export"), Symbols(names))

Import(name) == List(<<Sym("import"), Symbols(name)>>)

LibraryNames == {<<"my", "lib">>, <<"example", "private">>}

ExportLists == {<<"public-func">>, <<"public-func", "secret">>, <<"missing">>}

\* library bodies: the helper is private in each; procedures are defined by
\* (define (f) ...) and by (define f (lambda ...))
LibraryBodies ==
  { Begin(<<DefineProc("private-helper", Nil, Num(10)),
            DefineProc("public-func", Nil, Call("private-helper", <<>>)),
            Define("secret", Num(7))>>),
    Begin(<<Define("private-helper", Lambda(List(<<Sym("a")>>), Sym("secret"))),
            Define("secret", Num(7)),
            Define("public-func",
                   Lambda(List(<<Sym("a")>>),
                          Call("private-helper", <<Sym("a")>>)))>>) }

Uses ==
  { Call("public-func", <<>>), Call("public-func", <<Num(3)>>),
    Sym("private-helper"), Sym("secret") }

ImportScopes == {"top", "let"}

ImportAndUse(c, name, use) ==
  CASE c = "top" -> Begin(<<Import(name), use>>)
    [] c = "let" ->
         Let(<<B1("private-helper", Num(1))>>, Begin(<<Import(name), use>>))

EvalDefineLibrary ==
  \E name \in LibraryNames, exports \in ExportLists, body \in LibraryBodies :
    Run(DefineLibrary(name, <<Export(exports), body>>))

EvalImport ==
  \E c \in ImportScopes, name \in LibraryNames, use \in Uses :
    Run(ImportAndUse(c, name, use))

NextLibrary == EvalDefineLibrary \/ EvalImport

SpecLibrary == Init /\ [][NextLibrary]_vars

(***************************************************************************)
(* Interpreter instances of one thread: Interpreter::new makes a global    *)
(* environment of its own; evaluations go through any instance made so far *)
(***************************************************************************)
\* instances created on the thread
MaxInterpreters == 2

\* Interpreter::new: setup_initial_env gives the instance a fresh global
\* environment; nothing else of the thread is touched
NewInterpreter ==
  /\ Len(interpreters) < MaxInterpreters
  /\ envs' = Append(envs, GlobalEnv)
  /\ interpreters' = Append(interpreters, Len(envs) + 1)
  /\ UNCHANGED <<procs, made, records, record_types, libraries, result, trace,
                 steps>>

InstancePrograms ==
  { DefineLibrary(<<"my", "lib">>,
                  <<Export(<<"secret">>), Begin(<<Define("secret", Num(7))>>)>>),
    DefineLibrary(<<"other">>,
                  <<Export(<<"x">>), Begin(<<Define("x", Num(2))>>)>>),
    Begin(<<Import(<<"my", "lib">>), Sym("secret")>>),
    Begin(<<List(<<Sym("import"), Sym("other")>>), Sym("x")>>),
    Define("x", Num(1)),
    Sym("x") }

EvalIn ==
  \E i \in DOMAIN interpreters, prog \in InstancePrograms : RunIn(i, prog)

NextInstances == NewInterpreter \/ EvalIn

SpecInstances == Init /\ [][NextInstances]_vars

(***************************************************************************)
(* Equality programs: one evaluation builds procedures, record types,      *)
(* records and libraries, pairwise distinct objects of equal contents and  *)
(* one object under two names; then values are compared with ==.           *)
(***************************************************************************)
\* the byte vectors of the thread: Bytevector(1) and Bytevector(2) are two
\* objects of equal contents
Bytevectors == <<<<1, 2>>, <<1, 2>>, <<3>>>>

Objects ==
  { Begin(<<Define("p", Lambda(Nil, Num(1))),
            Define("q", Lambda(Nil, Num(1))),
            PointType,
            Define("t", Sym("point")),
            Define("r", Call("make-point", <<Num(1), Num(2)>>)),
            Define("s", Call("make-point", <<Num(1), Num(2)>>)),
            PointType,
            Define("l", DefineLibrary(<<"my", "lib">>, <<>>)),
            Define("m", DefineLibrary(<<"my", "lib">>, <<>>))>>),
    Begin(<<Define("p", Lambda(Nil, Num(1))),
            Define("q", Sym("p")),
            PointType,
            Define("t", Sym("point")),
            Define("r", Call("make-point", <<Num(1), Num(2)>>)),
            Define("s", Sym("r")),
            Define("l", DefineLibrary(<<"my", "lib">>, <<>>)),
            Define("m", Sym("l"))>>) }

ObjectNames == {"p", "q", "r", "s", "t", "point", "l", "m"}

Atoms == {Nil, Bool(TRUE), Num(1), Real(1), Str("a"), Sym("a")}

\* the objects the global environment names
Named ==
  {envs[1].bindings[n] : n \in ObjectNames \cap DOMAIN envs[1].bindings}

\* the values at hand: atoms, the named objects, the environments and byte
\* vectors as values
Basic ==
  Atoms \cup Named
    \cup {EnvironmentValue(e) : e \in DOMAIN envs}
    \cup {Bytevector(b) : b \in DOMAIN Bytevectors}

\* and pairs and vectors built of them
Comparable ==
  Basic
    \cup {Cons(x, Nil) : x \in Basic}
    \cup {Cons(Num(1), Num(1)), Cons(Cons(Num(1), Nil), Nil)}
    \cup {Vector(<<>>), Vector(<<Num(1)>>), Vector(<<Num(1), Num(1)>>)}
    \cup {Vector(<<x>>) : x \in Named}

MakeObjects == \E prog \in Objects : Run(prog)

\* a == b for two values of the embedding program: two of one variant, or
\* one of them the empty list
Compare ==
  \E a \in Comparable :
  \E b \in {c \in Comparable : c.t = a.t} \cup {Nil} :
    /\ steps < MaxSteps
    /\ result' = [ok |-> TRUE, val |-> Bool(eq(a, b)), err |-> <<>>]
    /\ trace' = <<[op |-> "eq", a |-> a, b |-> b, val |-> eq(a, b)]>>
    /\ steps' = steps + 1
    /\ UNCHANGED <<envs, procs, made, records, record_types, libraries,
                   interpreters>>

NextEq == MakeObjects \/ Compare

SpecEq == Init /\ [][NextEq]_vars

(***************************************************************************)
(* Failures under closure calls: a failing expression evaluated directly   *)
(* or inside nested applications of closures, at top level, as the body of *)
(* a guard, and in the thunk of a with-exception-handler.                  *)
(***************************************************************************)
\* closure applications put around the failing expression
MaxNest == 2

\* ((lambda () ((lambda () ... e))))
RECURSIVE Nest(_, _)
Nest(n, e) == IF n = 0 THEN e ELSE List(<<Lambda(Nil, Nest(n - 1, e))>>)

Failing == {Raise(Quote(Sym("boom"))), Raise(Num(7)), Sym("z"), Num(2)}

Receivers == {"top", "guard", "handler"}

Receive(c, body) ==
  CASE c = "top" -> body
    [] c = "guard" -> Guard("e", <<List(<<Bool(TRUE), Sym("e")>>)>>, body)
    [] c = "handler" ->
         WithHandler(Lambda(List(<<Sym("e")>>), Sym("e")), Thunk(body))

EvalNested ==
  \E c \in Receivers, n \in 0..MaxNest, e \in Failing :
    Run(Receive(c, Nest(n, e)))

NextNested == SetupDefine \/ EvalNested

SpecNested == Init /\ [][NextNested]_vars

(***************************************************************************)
(* Programs around an import: the library changes its own variable through *)
(* an exported procedure, the importer assigns or defines the imported     *)
(* name, the library is registered again under its name.                   *)
(***************************************************************************)
CounterLibrary ==
  DefineLibrary(<<"my", "lib">>,
    <<Export(<<"counter", "bump!", "get">>),
      Begin(<<Define("counter", Num(0)),
              Define("bump!", Lambda(Nil, SetBang("counter", Num(5)))),
              Define("get", Lambda(Nil, Sym("counter")))>>)>>)

CounterAgain ==
  DefineLibrary(<<"my", "lib">>,
    <<Export(<<"counter">>), Begin(<<Define("counter", Num(3))>>)>>)

SquareLibrary ==
  DefineLibrary(<<"example", "math">>,
    <<Export(<<"square">>), Begin(<<Define("square", Num(5))>>)>>)

Afterwards ==
  { Call("bump!", <<>>), SetBang("counter", Num(9)), Define("counter", Num(8)),
    CounterAgain, Num(0) }

Readings == {Sym("counter"), Call("get", <<>>), Sym("square")}

RegisterLibrary ==
  \E l \in {CounterLibrary, CounterAgain, SquareLibrary} : Run(l)

ImportThen ==
  \E name \in {<<"my", "lib">>, <<"example", "math">>},
     then \in Afterwards, read \in Readings :
    Run(Begin(<<Import(name), then, read>>))

NextCopy == RegisterLibrary \/ ImportThen

SpecCopy == Init /\ [][NextCopy]_vars

(***************************************************************************)
(* Programs that create environments (closure application, let, let*,     *)
(* letrec, guard, define-library, alone and inside one another) and        *)
(* programs that write into environments (define, set!, import).           *)
(***************************************************************************)
Creators ==
  { Call("f", <<Num(1)>>),
    Call("g", <<>>),
    Let(<<B1("x", Num(1))>>, Let(<<B1("y", Sym("x"))>>, Define("z", Sym("y")))),
    LetStar(<<B1("x", Num(1)), B1("y", Sym("x"))>>, SetBang("x", Sym("y"))),
    LetRec(<<B1("h", Lambda(Nil, Sym("h")))>>, Call("h", <<>>)),
    Guard("e", <<List(<<Bool(TRUE), Let(<<B1("x", Sym("e"))>>, Sym("x"))>>)>>,
          Raise(Num(7))),
    Let(<<B1("x", Num(1))>>,
        Guard("e", <<List(<<Bool(TRUE), Define("x", Sym("e"))>>)>>, Sym("z"))),
    CounterLibrary,
    Let(<<B1("x", Num(1))>>,
        DefineLibrary(<<"inner">>,
          <<List(<<Sym("import"), Symbols(<<"my", "lib">>)>>),
            Export(<<"k">>),
            Begin(<<Define("k", Lambda(Nil, Sym("x")))>>)>>)) }

Writers ==
  { Define("x", Num(3)),
    SetBang("x", Num(5)),
    Define("f", Lambda(List(<<Sym("a")>>),
                       Let(<<B1("y", Sym("a"))>>, SetBang("a", Sym("y"))))),
    Define("g", Lambda(Nil, Begin(<<Import(<<"my", "lib">>),
                                    Call("bump!", <<>>)>>))),
    Begin(<<Import(<<"my", "lib">>), Call("bump!", <<>>)>>),
    Begin(<<List(<<Sym("import"), Sym("inner")>>), Call("k", <<>>)>>) }

EvalCreator == \E prog \in Creators : Run(prog)

EvalWriter == \E prog \in Writers : Run(prog)

NextChain == EvalCreator \/ EvalWriter

SpecChain == Init /\ [][NextChain]_vars

(***************************************************************************)
(* Properties                                                              *)
(***************************************************************************)
Events(op) == {i \in DOMAIN trace : trace[i].op = op}

\* the environments of the chain of env, innermost first
RECURSIVE Chain(_, _)
Chain(env, es) ==
  IF es[env].parent = 0 THEN <<env>> ELSE <<env>> \o Chain(es[env].parent, es)

Binders(name, env, es) ==
  {i \in DOMAIN Chain(env, es) : name \in DOMAIN es[Chain(env, es)[i]].bindings}

\* the innermost environment of the chain of env that binds name, 0 if none
FirstBinder(name, env, es) ==
  IF Binders(name, env, es) = {} THEN 0
  ELSE Chain(env, es)[CHOOSE i \in Binders(name, env, es) :
                        \A j \in Binders(name, env, es) : i <= j]

\* post is pre with exactly name |-> value written into the table of env
WritesOnly(pre, post, env, name, value) ==
  /\ Len(post) = Len(pre)
  /\ \A k \in DOMAIN pre :
       /\ post[k].parent = pre[k].parent
       /\ DOMAIN post[k].bindings =
            DOMAIN pre[k].bindings \cup (IF k = env THEN {name} ELSE {})
       /\ \A m \in DOMAIN post[k].bindings :
            post[k].bindings[m] =
              IF k = env /\ m = name THEN value ELSE pre[k].bindings[m]

Store(es) ==
  [envs |-> es, procs |-> procs, made |-> made, records |-> records,
   record_types |-> record_types, libraries |-> libraries, trace |-> <<>>,
   depth |-> 0, lvl |-> 0, overflow |-> FALSE]

\* C1: (define n e) in environment E writes n into E's own table only, also
\* when an ancestor binds n; every other table and every parent link is
\* unchanged, and evaluating the same define of an atom again succeeds and
\* leaves the tables as they are.
C1_DefineWritesOwnTable ==
  \A i \in Events("define") :
    LET ev == trace[i]
    IN /\ WritesOnly(ev.pre, ev.post, ev.env, ev.name, ev.val)
       /\ (ev.args.car.t = "sym" /\ ev.args.cdr.car.t \in {"num", "sym"}) =>
            LET again == eval_define(ev.args, ev.env, Store(ev.post))
            IN again.ok /\ again.st.envs = ev.post

\* a define in a nested scope of a name that an ancestor binds to another
\* value and that the scope itself already binds
C1_Witness ==
  \E i \in Events("define") :
    LET ev == trace[i]
    IN /\ ev.env # 1
       /\ ev.name \in DOMAIN ev.pre[ev.env].bindings
       /\ ev.pre[ev.env].bindings[ev.name] # ev.val
       /\ FirstBinder(ev.name, ev.pre[ev.env].parent, ev.pre) # 0
       /\ ev.pre[FirstBinder(ev.name, ev.pre[ev.env].parent, ev.pre)]
            .bindings[ev.name] # ev.val

\* C2: when the chain of E binds n, (set! n e) overwrites n in the first
\* environment of the chain that binds it and nowhere else; no table gains
\* a name.
C2_SetWritesFirstBinder ==
  \A i \in Events("set") :
    LET ev == trace[i]
        fb == FirstBinder(ev.name, ev.env, ev.pre)
    IN fb # 0 =>
         /\ ev.ok
         /\ WritesOnly(ev.pre, ev.post, fb, ev.name, ev.val)
         /\ \A k \in DOMAIN ev.pre :
              DOMAIN ev.post[k].bindings = DOMAIN ev.pre[k].bindings

\* a set! from a scope that does not bind the name itself, whose first binder
\* is an ancestor that shadows a further binding of the name
C2_Witness ==
  \E i \in Events("set") :
    LET ev == trace[i]
        fb == FirstBinder(ev.name, ev.env, ev.pre)
    IN /\ fb # 0 /\ fb # ev.env
       /\ ev.pre[fb].parent # 0
       /\ FirstBinder(ev.name, ev.pre[fb].parent, ev.pre) # 0
       /\ ev.pre[fb].bindings[ev.name] # ev.val

\* C3: when no environment of the chain of E binds n, (set! n e) fails with
\* the unbound-variable error and no table changes.
C3_SetUnboundFails ==
  \A i \in Events("set") :
    LET ev == trace[i]
    IN FirstBinder(ev.name, ev.env, ev.pre) = 0 =>
         /\ ~ev.ok
         /\ ev.err = <<"Undefined variable: ", ev.name>>
         /\ ev.post = ev.pre
         /\ ~result.ok
         /\ FirstBinder(ev.name, ev.env, envs) = 0

\* a failing set! issued from a nested scope
C3_Witness ==
  \E i \in Events("set") :
    /\ FirstBinder(trace[i].name, trace[i].env, trace[i].pre) = 0
    /\ trace[i].env # 1

\* C4: a symbol evaluates to the binding of the innermost environment of the
\* chain that binds it and fails exactly when none does; scopes entered and
\* left between two references from the same environment do not change what
\* the name resolves to.
C4_LookupInnermost ==
  /\ \A i \in Events("lookup") :
       LET ev == trace[i]
           fb == FirstBinder(ev.name, ev.env, ev.pre)
       IN /\ ev.ok <=> fb # 0
          /\ fb # 0 => ev.val = ev.pre[fb].bindings[ev.name]
  /\ \A i, j \in Events("lookup") :
       ( /\ i < j
         /\ trace[i].env = trace[j].env
         /\ trace[i].name = trace[j].name
         /\ \A k \in Events("define") \cup Events("set") :
              ~(i < k /\ k < j /\ trace[k].name = trace[i].name) )
       => (trace[i].ok = trace[j].ok /\ trace[i].val = trace[j].val)

\* an outer reference, an inner let that rebinds the name to another value
\* and reads it, then the outer reference again
C4_Witness ==
  \E i, j \in Events("lookup") : \E k \in Events("lookup") :
    /\ i < k /\ k < j
    /\ trace[i].env = trace[j].env
    /\ trace[i].name = trace[j].name /\ trace[k].name = trace[i].name
    /\ trace[i].ok /\ trace[k].ok /\ trace[j].ok
    /\ trace[k].val # trace[i].val
    /\ trace[j].val = trace[i].val
    /\ trace[k].pre[trace[k].env].parent = trace[i].env
    /\ FirstBinder(trace[i].name, 1, trace[i].pre) # 0


\* the formal parameters of a parameter list and what the list ends in
RECURSIVE Formals(_)
Formals(params) ==
  IF params.t = "pair" THEN <<params.car>> \o Formals(params.cdr) ELSE <<>>

RECURSIVE RestOf(_)
RestOf(params) == IF params.t = "pair" THEN RestOf(params.cdr) ELSE params

Writes == Events("define") \cup Events("set")

\* the variable (environment, name) a define or set! event wrote
Written(d) ==
  IF trace[d].op = "define" THEN <<trace[d].env, trace[d].name>>
  ELSE <<FirstBinder(trace[d].name, trace[d].env, trace[d].pre), trace[d].name>>

\* the references made from the scope of application i to names that scope
\* does not bind itself
FreeLookups(i) ==
  {j \in Events("lookup") :
     /\ j > i
     /\ trace[j].env = trace[i].new_env
     /\ trace[j].name \notin DOMAIN trace[j].pre[trace[i].new_env].bindings}

\* C5: a closure shares the environment it was made in: a free variable read
\* by a call resolves through that very environment in the tables as they
\* are at the time of the read, so it yields the value of the most recent
\* define or set! of the variable.
C5_ClosureSharesEnvironment ==
  \A i \in Events("apply") : \A j \in FreeLookups(i) :
    LET L == trace[j]
        fb == FirstBinder(L.name, made[trace[i].proc], L.pre)
    IN /\ L.ok <=> fb # 0
       /\ fb # 0 => L.val = L.pre[fb].bindings[L.name]
       /\ \A d \in Writes :
            ( /\ d < j
              /\ Written(d) = <<fb, L.name>>
              /\ \A e \in Writes : ~(d < e /\ e < j /\ Written(e) = Written(d)) )
            => L.val = trace[d].val

\* a closure made by an earlier evaluation reads a variable that a set! has
\* changed to another value since
C5_Witness ==
  \E i \in Events("apply") : \E j \in FreeLookups(i) : \E d \in Events("set") :
    /\ d < i
    /\ trace[i].proc <= trace[d].nprocs
    /\ Written(d) = <<FirstBinder(trace[j].name, made[trace[i].proc], trace[j].pre),
                      trace[j].name>>
    /\ trace[d].pre[Written(d)[1]].bindings[trace[d].name] # trace[d].val
    /\ trace[j].val = trace[d].val

\* C6: an application binds its arguments in a new environment, one that did
\* not exist before the call, whose parent is the environment the closure was
\* made in and not the caller's; binding the parameters changes no
\* environment that existed before, so no application sees or overwrites the
\* parameters of another one.
C6_ApplicationScopeFreshLexical ==
  /\ \A i \in Events("apply") :
       LET A == trace[i]
           C == trace[i - 1]
           a == A.new_env
           formals == Formals(procs[A.proc].params)
       IN /\ C.op = "call" /\ C.proc = A.proc
          /\ a = Len(C.before) + 1
          /\ Len(A.pre) = a
          /\ A.pre[a].parent = made[A.proc]
          /\ \A k \in DOMAIN C.before : A.pre[k] = C.before[k]
          /\ \A q \in DOMAIN formals :
               A.pre[a].bindings[formals[q].v] = A.args[q]
          /\ \A j \in FreeLookups(i) :
               LET fb == FirstBinder(trace[j].name, made[A.proc], trace[j].pre)
               IN fb # 0 => trace[j].val = trace[j].pre[fb].bindings[trace[j].name]
  /\ \A i, j \in Events("apply") : i # j => trace[i].new_env # trace[j].new_env

\* a call from a scope that rebinds a free variable of the body: the body
\* reads the binding of the environment the closure was made in
C6_Witness ==
  \E i \in Events("apply") : \E j \in FreeLookups(i) :
    LET caller == trace[i - 2].env
        L == trace[j]
    IN /\ trace[i - 2].op = "invoke"
       /\ caller # made[trace[i].proc]
       /\ FirstBinder(L.name, caller, L.pre) = caller
       /\ L.ok
       /\ L.val # L.pre[caller].bindings[L.name]

\* a recursive call: the inner application binds the same parameter to another
\* value, and the outer application reads its own argument afterwards
C6_RecursionReached ==
  \E i, k \in Events("apply") : \E j \in Events("lookup") :
    /\ i < k /\ k < j
    /\ trace[i].proc = trace[k].proc
    /\ trace[i].args # trace[k].args
    /\ trace[j].env = trace[i].new_env
    /\ trace[j].name = Formals(procs[trace[i].proc].params)[1].v
    /\ trace[j].val = trace[i].args[1]

\* C7: a call with fewer arguments than formal parameters returns the arity
\* error at once: nothing is evaluated between the call and its return, and
\* every environment that existed before the call is as it was.
C7_TooFewArgumentsFail ==
  \A r \in Events("ret") :
    LET R == trace[r]
        C == trace[R.call]
    IN Len(C.args) < Len(Formals(procs[C.proc].params)) =>
         /\ ~R.ok
         /\ R.err = <<"Too few arguments, expected ", ToString(Len(C.args) + 1),
                      " got ", ToString(Len(C.args))>>
         /\ r = R.call + 1
         /\ \A k \in DOMAIN C.before : R.post[k] = C.before[k]

\* a closure whose body assigns a variable, called with one argument of two
C7_Witness ==
  \E r \in Events("ret") :
    LET C == trace[trace[r].call]
    IN /\ Len(C.args) = 1
       /\ Len(Formals(procs[C.proc].params)) = 2
       /\ procs[C.proc].body.t = "pair"
       /\ ~trace[r].ok

\* C8: more arguments than formal parameters are accepted only by a
\* parameter list that ends in a symbol, and that symbol is then bound to the
\* list of the extra arguments; a list that ends in Nil refuses them.
C8_ExtraArgumentsNeedRest ==
  \A r \in Events("ret") :
    LET R == trace[r]
        C == trace[R.call]
        params == procs[C.proc].params
        n == Len(Formals(params))
        A == trace[R.call + 1]
    IN Len(C.args) > n =>
         IF RestOf(params).t = "sym"
           THEN /\ A.op = "apply"
                /\ RestOf(params).v \in DOMAIN A.pre[A.new_env].bindings
                /\ A.pre[A.new_env].bindings[RestOf(params).v] =
                     List(SubSeq(C.args, n + 1, Len(C.args)))
           ELSE ~R.ok

\* C9: a procedure made by (define (name . params) body) behaves as the one
\* made by (define name (lambda params body)): applied to the same arguments
\* in the same state it returns the same value or failure and leaves the
\* same environments.
C9_DefineShorthandIsLambda ==
  \A r \in Events("ret") :
    LET R == trace[r]
        C == trace[R.call]
        clo == procs[C.proc]
        lam == [kind |-> "lambda", params |-> clo.params,
                body |-> clo.body.car, env |-> clo.env]
        alt == lambda_closure(C.proc, lam, C.args,
                              [Store(C.before) EXCEPT !.depth = 1])
    IN clo.kind = "define" =>
         /\ alt.ok = R.ok
         /\ alt.val = R.val
         /\ alt.err = R.err
         /\ alt.st.envs = R.post


\* the events that evaluate something in an environment
InEnv == Events("eval") \cup Events("lookup") \cup Events("define")
           \cup Events("set") \cup Events("invoke")

\* the initializer events of the let that created environment n, in order
InitsOf(n) ==
  SelectSeq([k \in DOMAIN trace |-> k],
            LAMBDA k : trace[k].op = "init" /\ trace[k].new_env = n)

BodyOf(n) == {t \in Events("letbody") : trace[t].new_env = n}

\* C10: the initializers of a let are evaluated in the enclosing environment,
\* in the order of the binding list; nothing is evaluated in the new
\* environment (or below it) before the body, so no initializer sees a name
\* of this let; the body runs in the new environment, a child of the
\* enclosing one that holds exactly the bindings.
C10_LetInitializersOuter ==
  \A s \in Events("letbegin") :
    LET S == trace[s]
        n == S.new_env
        bs == Formals(S.args.car)
        inits == InitsOf(n)
    IN /\ Len(inits) <= Len(bs)
       /\ \A q \in DOMAIN inits :
            /\ s < inits[q]
            /\ q > 1 => inits[q - 1] < inits[q]
            /\ trace[inits[q]].in = S.outer
            /\ trace[inits[q]].name = bs[q].car.v
            /\ trace[inits[q]].expr = bs[q].cdr.car
       /\ \A j \in InEnv :
            (j > s /\ \E k \in DOMAIN Chain(trace[j].env, envs) :
                        Chain(trace[j].env, envs)[k] = n)
            => \E t \in BodyOf(n) : t < j
       /\ \A t \in BodyOf(n) :
            /\ Len(inits) = Len(bs)
            /\ inits[Len(inits)] < t
            /\ trace[t + 1].op = "eval"
            /\ trace[t + 1].env = n
            /\ trace[t + 1].expr = S.args.cdr.car
            /\ trace[t].pre[n].parent = S.outer
            /\ DOMAIN trace[t].pre[n].bindings = {bs[q].car.v : q \in DOMAIN bs}
            /\ \A q \in DOMAIN inits :
                 (\A q2 \in DOMAIN inits :
                    q2 > q => trace[inits[q2]].name # trace[inits[q]].name)
                 => trace[t].pre[n].bindings[trace[inits[q]].name]
                      = trace[inits[q]].val

\* a let whose second initializer names the first binding and gets the value
\* of the enclosing binding of that name instead
C10_Witness ==
  \E s \in Events("letbegin") :
    LET inits == InitsOf(trace[s].new_env)
    IN /\ BodyOf(trace[s].new_env) # {}
       /\ Len(inits) = 2
       /\ trace[inits[2]].expr = Sym(trace[inits[1]].name)
       /\ trace[inits[2]].val # trace[inits[1]].val


\* the initializer events of the let* that began at event s, in order
StarInitsOf(s) ==
  SelectSeq([k \in DOMAIN trace |-> k],
            LAMBDA k : trace[k].op = "starinit" /\ trace[k].star = s)

\* C11: the q-th initializer of a let* is evaluated in an environment whose
\* chain is the environments of the earlier siblings, newest first, each
\* holding exactly its one binding with the value computed for it, followed
\* by the enclosing chain; so the earlier siblings are visible and the later
\* ones are not.  Each binding gets an environment that did not exist
\* before, and no environment that existed receives a binding.
C11_LetStarSequential ==
  \A s \in Events("starbegin") :
    LET S == trace[s]
        bs == Formals(S.args.car)
        inits == StarInitsOf(s)
    IN /\ Len(inits) <= Len(bs)
       /\ \A q \in DOMAIN inits :
            LET I == trace[inits[q]]
                E == trace[I.from + 1]
            IN /\ I.name = bs[q].car.v
               /\ I.expr = bs[q].cdr.car
               /\ E.op = "eval" /\ E.expr = I.expr /\ E.env = I.in
               /\ I.in = IF q = 1 THEN S.outer ELSE trace[inits[q - 1]].new_env
               /\ Chain(I.in, I.before) =
                    [p \in 1..(q - 1) |-> trace[inits[q - p]].new_env]
                      \o Chain(S.outer, I.before)
               /\ \A p \in 1..(q - 1) :
                    LET P == trace[inits[p]]
                    IN /\ DOMAIN I.before[P.new_env].bindings = {P.name}
                       /\ I.before[P.new_env].bindings[P.name] = P.val
               /\ I.new_env = Len(I.pre) + 1
               /\ Len(I.post) = I.new_env
               /\ I.post[I.new_env].parent = I.in
               /\ DOMAIN I.post[I.new_env].bindings = {I.name}
               /\ I.post[I.new_env].bindings[I.name] = I.val
               /\ \A k \in DOMAIN I.pre : I.post[k] = I.pre[k]
       /\ \A b \in Events("starbody") :
            trace[b].star = s =>
              /\ Len(inits) = Len(bs)
              /\ trace[b].env = IF Len(inits) = 0 THEN S.outer
                                ELSE trace[inits[Len(inits)]].new_env
              /\ trace[b + 1].op = "eval"
              /\ trace[b + 1].env = trace[b].env
              /\ trace[b + 1].expr = S.args.cdr.car
              /\ \A k \in DOMAIN S.pre : trace[b].pre[k] = S.pre[k]

\* a let* whose second initializer names the first binding and gets the
\* value just computed for it, not the one of the enclosing binding
C11_Witness ==
  \E s \in Events("starbegin") : \E b \in Events("starbody") :
    LET inits == StarInitsOf(s)
        S == trace[s]
    IN /\ trace[b].star = s
       /\ Len(inits) = 2
       /\ trace[inits[2]].expr = Sym(trace[inits[1]].name)
       /\ trace[inits[2]].val = trace[inits[1]].val
       /\ FirstBinder(trace[inits[1]].name, S.outer, S.pre) # 0
       /\ S.pre[FirstBinder(trace[inits[1]].name, S.outer, S.pre)]
              .bindings[trace[inits[1]].name] # trace[inits[1]].val


\* the initializer events of the letrec that created environment n, in order
RecInitsOf(n) ==
  SelectSeq([k \in DOMAIN trace |-> k],
            LAMBDA k : trace[k].op = "recinit" /\ trace[k].new_env = n)

\* what the claim and its amendment share: one new child environment holds
\* every name as a placeholder before the first initializer, every
\* initializer is evaluated in it, in order, the body runs in it, and a
\* closure made by an initializer closes over it
LetrecFrame(s) ==
  LET S == trace[s]
      n == S.new_env
      bs == Formals(S.args.car)
      inits == RecInitsOf(n)
  IN /\ n = Len(S.pre) + 1
     /\ Len(S.post) = n
     /\ S.post[n].parent = S.outer
     /\ DOMAIN S.post[n].bindings = {bs[q].car.v : q \in DOMAIN bs}
     /\ \A q \in DOMAIN bs : S.post[n].bindings[bs[q].car.v] = Nil
     /\ \A k \in DOMAIN S.pre : S.post[k] = S.pre[k]
     /\ Len(inits) <= Len(bs)
     /\ \A q \in DOMAIN inits :
          LET I == trace[inits[q]]
              E == trace[I.from + 1]
          IN /\ s < inits[q]
             /\ q > 1 => inits[q - 1] < I.from + 1
             /\ I.name = bs[q].car.v
             /\ I.expr = bs[q].cdr.car
             /\ E.op = "eval" /\ E.expr = I.expr /\ E.env = n
             /\ (E.expr.t = "pair" /\ I.val.t = "proc")
                  => procs[I.val.id].env = n
     /\ \A b \in Events("recbody") :
          trace[b].new_env = n =>
            /\ Len(inits) = Len(bs)
            /\ inits[Len(inits)] < b
            /\ trace[b + 1].op = "eval"
            /\ trace[b + 1].env = n
            /\ trace[b + 1].expr = S.args.cdr.car
            /\ \A q \in DOMAIN inits :
                 (\A q2 \in DOMAIN inits :
                    q2 > q => trace[inits[q2]].name # trace[inits[q]].name)
                 => trace[b].pre[n].bindings[trace[inits[q]].name]
                      = trace[inits[q]].val

\* C12 as claimed: no placeholder is overwritten before all initializers
\* have been evaluated, so every initializer finds every name of the letrec
\* still holding the placeholder
C12_LetrecPlaceholdersUntilEnd ==
  \A s \in Events("recbegin") :
    /\ LetrecFrame(s)
    /\ \A q \in DOMAIN RecInitsOf(trace[s].new_env) :
         LET I == trace[RecInitsOf(trace[s].new_env)[q]]
         IN \A m \in DOMAIN I.before[I.new_env].bindings :
              I.before[I.new_env].bindings[m] = Nil

\* C12 amended: each placeholder is overwritten with the value of its
\* initializer as soon as that initializer has been evaluated: the q-th
\* initializer finds the names of the initializers before it holding their
\* values and the other names holding the placeholder
C12_LetrecOverwritesInOrder ==
  \A s \in Events("recbegin") :
    /\ LetrecFrame(s)
    /\ LET inits == RecInitsOf(trace[s].new_env)
       IN \A q \in DOMAIN inits :
            LET I == trace[inits[q]]
            IN /\ I.post[I.new_env].bindings[I.name] = I.val
               /\ \A m \in DOMAIN I.before[I.new_env].bindings :
                    LET done == {p \in 1..(q - 1) : trace[inits[p]].name = m}
                    IN I.before[I.new_env].bindings[m] =
                         IF done = {} THEN Nil
                         ELSE trace[inits[CHOOSE p \in done :
                                            \A p2 \in done : p2 <= p]].val

\* a letrec whose second initializer names the first binding and gets the
\* value computed for it
C12_Witness ==
  \E s \in Events("recbegin") : \E b \in Events("recbody") :
    LET inits == RecInitsOf(trace[s].new_env)
    IN /\ trace[b].new_env = trace[s].new_env
       /\ Len(inits) = 2
       /\ trace[inits[2]].expr = Sym(trace[inits[1]].name)
       /\ trace[inits[2]].val = trace[inits[1]].val
       /\ trace[inits[2]].val # Nil

\* two closures made by the initializers call each other from the body
C12_MutualRecursionReached ==
  \E s \in Events("recbegin") : \E i, j, k \in Events("apply") :
    /\ s < i /\ i < j /\ j < k
    /\ trace[i].proc = trace[k].proc
    /\ trace[i].proc # trace[j].proc
    /\ result.ok /\ result.val.t = "num"


\* the "done" event of the evaluation that starts at event i
End(i) == CHOOSE k \in DOMAIN trace : trace[k].op = "done" /\ trace[k].start = i

\* the evaluations made directly by the evaluation that starts at i, in order
Kids(i) ==
  SelectSeq([k \in DOMAIN trace |-> k],
            LAMBDA k : /\ trace[k].op = "eval"
                       /\ trace[k].lvl = trace[i].lvl + 1
                       /\ i < k /\ k < End(i))

\* the evaluations of the form whose head is the symbol h
Forms(h) ==
  {i \in Events("eval") :
     /\ trace[i].expr.t = "pair"
     /\ trace[i].expr.car.t = "sym"
     /\ trace[i].expr.car.v = h}

SameOutcome(a, b) ==
  /\ trace[a].ok = trace[b].ok
  /\ trace[a].val = trace[b].val
  /\ trace[a].err = trace[b].err

IsFalse(v) == v.t = "bool" /\ v.v = FALSE

\* C13: an if evaluates its test, once and first; a failing test is the
\* outcome; otherwise it evaluates exactly one more expression, the
\* consequent unless the test value is the boolean #f, and that is its
\* outcome; with #f and no alternate it evaluates nothing more and yields
\* the empty list.  The if does nothing else.
C13_IfOneBranch ==
  \A i \in Forms("if") :
    LET a == trace[i].expr.cdr
        kids == Kids(i)
        T == trace[End(kids[1])]
        sel == IF IsFalse(T.val)
                 THEN IF a.cdr.cdr.t = "pair" THEN <<a.cdr.cdr.car>> ELSE <<>>
                 ELSE <<a.cdr.car>>
    IN (a.t = "pair" /\ a.cdr.t = "pair") =>
         /\ Len(kids) >= 1
         /\ kids[1] = i + 1
         /\ trace[kids[1]].expr = a.car
         /\ trace[kids[1]].env = trace[i].env
         /\ IF ~T.ok
              THEN /\ Len(kids) = 1
                   /\ End(i) = End(kids[1]) + 1
                   /\ SameOutcome(End(i), End(kids[1]))
              ELSE IF Len(sel) = 0
                THEN /\ Len(kids) = 1
                     /\ End(i) = End(kids[1]) + 1
                     /\ trace[End(i)].ok
                     /\ trace[End(i)].val = Nil
                ELSE /\ Len(kids) = 2
                     /\ kids[2] = End(kids[1]) + 1
                     /\ trace[kids[2]].expr = sel[1]
                     /\ trace[kids[2]].env = trace[i].env
                     /\ End(i) = End(kids[2]) + 1
                     /\ SameOutcome(End(i), End(kids[2]))

\* an if whose test is neither #t nor #f takes the consequent, which
\* assigns x, and its alternate, a define of y, leaves no trace
C13_Witness ==
  \E i \in Forms("if") :
    LET kids == Kids(i)
    IN /\ Len(kids) = 2
       /\ trace[End(kids[1])].ok
       /\ trace[End(kids[1])].val.t \in {"num", "nil"}
       /\ trace[i].expr.cdr.cdr.cdr.t = "pair"
       /\ \E w \in Events("set") : kids[2] < w /\ w < End(i)
       /\ Events("define") = {}

\* an if without alternate whose test is #f
C13_NoAlternateReached ==
  \E i \in Forms("if") :
    /\ Len(Kids(i)) = 1
    /\ trace[End(i + 1)].ok
    /\ IsFalse(trace[End(i + 1)].val)
    /\ trace[End(i)].val = Nil
    /\ Events("set") = {}


IsElse(clause) == clause.car.t = "sym" /\ clause.car.v = "else"

\* the test of clause q of the cond at i was evaluated, as the q-th
\* evaluation of the cond, and succeeded
Tested(i, q) ==
  /\ Len(Kids(i)) >= q
  /\ trace[Kids(i)[q]].expr = Formals(trace[i].expr.cdr)[q].car
  /\ trace[Kids(i)[q]].env = trace[i].env
  /\ trace[End(Kids(i)[q])].ok

\* every clause before q is not an else clause and its test yielded #f
CondReached(i, q) ==
  \A p \in 1..(q - 1) :
    /\ ~IsElse(Formals(trace[i].expr.cdr)[p])
    /\ Tested(i, p)
    /\ IsFalse(trace[End(Kids(i)[p])].val)

\* C14: a cond selects the first clause that is an else clause or whose test
\* is not #f, the else clause whatever the name else is bound to; the
\* consequent of the selected clause is the last thing evaluated and its
\* outcome the outcome of the cond; no later test is evaluated; without a
\* selected clause the cond yields the empty list.
C14_CondFirstTruthyElseAlways ==
  \A i \in Forms("cond") :
    LET cs == Formals(trace[i].expr.cdr)
        kids == Kids(i)
        last == kids[Len(kids)]
    IN /\ \A q \in DOMAIN cs :
            ( /\ CondReached(i, q)
              /\ \/ IsElse(cs[q])
                 \/ Tested(i, q) /\ ~IsFalse(trace[End(kids[q])].val) )
            => /\ Len(kids) \in {q, q + 1}
               /\ trace[last].expr = cs[q].cdr.car
               /\ trace[last].env = trace[i].env
               /\ SameOutcome(End(i), End(last))
       /\ CondReached(i, Len(cs) + 1)
            => /\ Len(kids) = Len(cs)
               /\ trace[End(i)].ok
               /\ trace[End(i)].val = Nil


\* the define and set! events that changed a variable
Effective == {w \in Writes : trace[w].op = "set" => trace[w].ok}

SpecialForms ==
  {"quote", "lambda", "if", "define", "set!", "cond", "let", "let*", "letrec",
   "define-library", "import", "begin", "with-exception-handler", "raise",
   "error", "guard", "define-record-type"}

\* the evaluations that are procedure applications
Apps ==
  {i \in Events("eval") :
     /\ trace[i].expr.t = "pair"
     /\ ~(trace[i].expr.car.t = "sym" /\ trace[i].expr.car.v \in SpecialForms)}

\* the operator of the application at i is evaluated first, in its
\* environment, and its failure is the outcome of the application
OperatorFirst(i) ==
  LET kids == Kids(i)
  IN /\ Len(kids) >= 1
     /\ kids[1] = i + 1
     /\ trace[kids[1]].expr = trace[i].expr.car
     /\ trace[kids[1]].env = trace[i].env
     /\ ~trace[End(kids[1])].ok =>
          /\ Len(kids) = 1
          /\ End(i) = End(kids[1]) + 1
          /\ SameOutcome(End(i), End(kids[1]))

\* the operands of the application at i are evaluated left to right, each
\* right after the one before it succeeded, in the environment of the
\* application; a failing operand is the last thing the application does
OperandsInOrder(i) ==
  LET kids == Kids(i)
      ops == Formals(trace[i].expr.cdr)
      m == IF Len(kids) - 1 < Len(ops) THEN Len(kids) - 1 ELSE Len(ops)
  IN /\ \A q \in 1..m :
          /\ trace[kids[q + 1]].expr = ops[q]
          /\ trace[kids[q + 1]].env = trace[i].env
          /\ kids[q + 1] = End(kids[q]) + 1
          /\ trace[End(kids[q])].ok
          /\ ~trace[End(kids[q + 1])].ok =>
               /\ Len(kids) = q + 1
               /\ End(i) = End(kids[q + 1]) + 1
               /\ SameOutcome(End(i), End(kids[q + 1]))
     /\ (m < Len(ops)) => ~trace[End(kids[m + 1])].ok

\* every operand of the application at i was evaluated and succeeded
OperandsDone(i) ==
  /\ Len(Kids(i)) >= Len(Formals(trace[i].expr.cdr)) + 1
  /\ \A q \in 1..(Len(Formals(trace[i].expr.cdr)) + 1) :
       trace[End(Kids(i)[q])].ok

\* the procedure is applied, after the last operand, to the operand values
AppliedToOperands(i) ==
  LET kids == Kids(i)
      n == Len(Formals(trace[i].expr.cdr))
      c == End(kids[n + 1]) + 2
  IN /\ trace[c - 1].op = "invoke"
     /\ trace[c].op = "call"
     /\ trace[c].proc = trace[End(kids[1])].val.id
     /\ trace[c].args = [q \in 1..n |-> trace[End(kids[q + 1])].val]
     /\ trace[End(i) - 1].op = "ret"
     /\ trace[End(i) - 1].call = c
     /\ SameOutcome(End(i), End(i) - 1)

NotAProcedure(i) ==
  /\ ~trace[End(i)].ok
  /\ trace[End(i)].err = <<"Not a procedure">>

\* C16 as claimed: an operator whose value is not a procedure fails the
\* application before any operand is evaluated
C16_OperatorCheckedBeforeOperands ==
  \A i \in Apps :
    /\ OperatorFirst(i)
    /\ trace[End(i + 1)].ok =>
         IF trace[End(i + 1)].val.t = "proc"
           THEN /\ OperandsInOrder(i)
                /\ OperandsDone(i) => AppliedToOperands(i)
           ELSE /\ Len(Kids(i)) = 1
                /\ NotAProcedure(i)

\* C16 amended: the operator is evaluated first, then the operands left to
\* right, whatever the operator's value; the first failing operand ends the
\* application with its failure; only after the last operand is the
\* operator's value looked at: a procedure is applied to the operand values,
\* anything else fails the application as not a procedure.
C16_OperandsBeforeProcedureCheck ==
  \A i \in Apps :
    /\ OperatorFirst(i)
    /\ trace[End(i + 1)].ok =>
         /\ OperandsInOrder(i)
         /\ OperandsDone(i) =>
              IF trace[End(i + 1)].val.t = "proc"
                THEN AppliedToOperands(i)
                ELSE /\ Len(Kids(i)) = Len(Formals(trace[i].expr.cdr)) + 1
                     /\ End(i) = End(Kids(i)[Len(Kids(i))]) + 1
                     /\ NotAProcedure(i)

\* an application of a number to an operand that assigns a variable: the
\* assignment happens and the application fails as not a procedure
C16_Witness ==
  \E i \in Apps : \E w \in Events("set") :
    /\ trace[End(i + 1)].ok
    /\ trace[End(i + 1)].val.t = "num"
    /\ i < w /\ w < End(i)
    /\ trace[w].ok
    /\ NotAProcedure(i)

\* a procedure applied to two operands, the first of which writes the
\* variable the second reads
C16_OrderReached ==
  \E i \in Apps :
    /\ trace[End(i + 1)].ok
    /\ trace[End(i + 1)].val.t = "proc"
    /\ Len(Formals(trace[i].expr.cdr)) = 2
    /\ OperandsDone(i)
    /\ trace[End(i)].ok


\* message a ends with message b
EndsWith(a, b) ==
  /\ Len(b) <= Len(a)
  /\ SubSeq(a, Len(a) - Len(b) + 1, Len(a)) = b

\* the events of one kind that belong to the form evaluated at i
OfForm(op, i) == {k \in Events(op) : trace[k].form = i}

\* C17: when the thunk of a with-exception-handler fails because of
\* (raise obj), the handler is called with one argument, the value of obj,
\* and what the handler returns is the value of the form.
C17_HandlerGetsRaisedValue ==
  \A i \in Forms("with-exception-handler") :
    \A t \in OfForm("thunk", i) : \A h \in OfForm("handle", i) :
      \A r \in Events("raise") :
        (t < r /\ r < h /\ EndsWith(trace[h].cause, trace[r].err))
        => /\ trace[h].arg = trace[r].val
           /\ trace[h + 1].op = "call"
           /\ trace[h + 1].args = <<trace[r].val>>
           /\ trace[End(i) - 1].op = "ret"
           /\ trace[End(i) - 1].call = h + 1
           /\ trace[End(i) - 1].ok => SameOutcome(End(i), End(i) - 1)

\* C18: the handler of a with-exception-handler is called at most once, and
\* only right after the call of the thunk has returned a failure; when the
\* thunk returns a value it is the value of the form and there is no call
\* of the handler; the outcome of the handler, value or failure, is the
\* outcome of the form.
C18_HandlerAtMostOnceAfterFailure ==
  \A i \in Forms("with-exception-handler") :
    \A t \in OfForm("thunk", i) :
      LET R == CHOOSE k \in Events("ret") : trace[k].call = t + 1
          H == OfForm("handle", i)
      IN /\ trace[t + 1].op = "call"
         /\ trace[t + 1].proc = trace[t].proc
         /\ trace[t + 1].args = <<>>
         /\ Cardinality(H) <= 1
         /\ Cardinality(OfForm("thunk", i)) = 1
         /\ IF trace[R].ok
              THEN /\ H = {}
                   /\ End(i) = R + 1
                   /\ SameOutcome(End(i), R)
              ELSE \A h \in H :
                     /\ h = R + 1
                     /\ trace[h + 1].op = "call"
                     /\ trace[h + 1].proc = trace[h].proc
                     /\ Len(trace[h + 1].args) = 1
                     /\ trace[End(i) - 1].op = "ret"
                     /\ trace[End(i) - 1].call = h + 1
                     /\ SameOutcome(End(i), End(i) - 1)
                     /\ \A c \in Events("call") :
                          (c > h + 1 /\ c < End(i)) =>
                            trace[c].proc # trace[h].proc
         /\ (~trace[R].ok /\ trace[End(Kids(i)[1])].val.t = "proc") => H # {}

\* a handler that fails: its failure is the failure of the form, and the
\* handler ran once
C18_Witness ==
  \E i \in Forms("with-exception-handler") : \E h \in OfForm("handle", i) :
    /\ ~trace[End(i) - 1].ok
    /\ trace[End(i) - 1].call = h + 1
    /\ ~trace[End(i)].ok
    /\ Cardinality(OfForm("handle", i)) = 1

\* a thunk that returns: no call of the handler
C18_NormalReturnReached ==
  \E i \in Forms("with-exception-handler") : \E t \in OfForm("thunk", i) :
    /\ trace[End(i)].ok
    /\ trace[End(i)].val = Num(2)
    /\ OfForm("handle", i) = {}


\* the environments of a chain, as a set
ChainSet(env, es) == {Chain(env, es)[k] : k \in DOMAIN Chain(env, es)}

\* C19: a guard evaluates its body in its own environment; a body that
\* succeeds is the outcome and nothing else happens; when the body fails
\* because of (raise obj), a new child of the guard's environment binds var,
\* and only var, to the value of obj, and the clauses are evaluated in it;
\* no environment that existed is changed, and var is not bound in the
\* guard's own chain unless something else binds it.
C19_GuardBindsRaisedValue ==
  \A i \in Forms("guard") :
    LET kids == Kids(i)
        B == End(kids[1])
        G == OfForm("guard", i)
        var == trace[i].expr.cdr.car.car.v
    IN /\ kids[1] = i + 1
       /\ trace[kids[1]].expr = trace[i].expr.cdr.cdr.car
       /\ trace[kids[1]].env = trace[i].env
       /\ IF trace[B].ok
            THEN /\ G = {}
                 /\ Len(kids) = 1
                 /\ End(i) = B + 1
                 /\ SameOutcome(End(i), B)
            ELSE \A r \in Events("raise") :
                   (i < r /\ r < B /\ EndsWith(trace[B].err, trace[r].err))
                   => /\ G = {B + 1}
                      /\ LET g == trace[B + 1]
                         IN /\ g.guard_env = Len(g.pre) + 1
                            /\ Len(g.post) = g.guard_env
                            /\ g.post[g.guard_env].parent = trace[i].env
                            /\ DOMAIN g.post[g.guard_env].bindings = {var}
                            /\ g.post[g.guard_env].bindings[var] = trace[r].val
                            /\ \A k \in DOMAIN g.pre : g.post[k] = g.pre[k]
                            /\ \A q \in 2..Len(kids) :
                                 trace[kids[q]].env = g.guard_env
       /\ (\A w \in Writes : trace[w].name # var)
            => \A k \in ChainSet(trace[i].env, envs) :
                 var \notin DOMAIN envs[k].bindings

\* the test of clause q of the guard at i was evaluated, as the q-th
\* evaluation after the body, in the guard's new environment, and succeeded
GuardTested(i, q) ==
  /\ Len(Kids(i)) >= q + 1
  /\ trace[Kids(i)[q + 1]].expr = Formals(trace[i].expr.cdr.car.cdr)[q].car
  /\ \A g \in OfForm("guard", i) : trace[Kids(i)[q + 1]].env = trace[g].guard_env
  /\ trace[End(Kids(i)[q + 1])].ok

\* every clause before q is not an else clause and its test yielded #f
GuardReached(i, q) ==
  \A p \in 1..(q - 1) :
    /\ ~IsElse(Formals(trace[i].expr.cdr.car.cdr)[p])
    /\ GuardTested(i, p)
    /\ IsFalse(trace[End(Kids(i)[p + 1])].val)

\* C20: after its body has failed a guard selects, as cond does, the first
\* clause that is an else clause or whose test is not #f; the expression of
\* the selected clause is the last thing evaluated, in the guard's new
\* environment, and its outcome is the outcome of the guard; no later test
\* is evaluated.
C20_GuardClausesLikeCond ==
  \A i \in Forms("guard") : \A g \in OfForm("guard", i) :
    LET cs == Formals(trace[i].expr.cdr.car.cdr)
        kids == Kids(i)
        last == kids[Len(kids)]
    IN \A q \in DOMAIN cs :
         ( /\ GuardReached(i, q)
           /\ \/ IsElse(cs[q])
              \/ GuardTested(i, q) /\ ~IsFalse(trace[End(kids[q + 1])].val) )
         => /\ Len(kids) \in {q + 1, q + 2}
            /\ trace[last].expr = cs[q].cdr.car
            /\ trace[last].env = trace[g].guard_env
            /\ SameOutcome(End(i), End(last))

\* the guards whose body failed and whose clauses all tested false
NoClauseMatched ==
  {i \in Forms("guard") :
     /\ OfForm("guard", i) # {}
     /\ \A q \in 2..Len(Kids(i)) :
          /\ trace[End(Kids(i)[q])].ok
          /\ IsFalse(trace[End(Kids(i)[q])].val)}

\* C21: when the body of a guard fails and no clause matches, the guard
\* fails with an unhandled-exception failure, and an enclosing guard binds,
\* and the handler of an enclosing with-exception-handler receives, the
\* same payload that the inner guard had bound to its variable.
C21_UnhandledCarriesCondition ==
  \A i \in NoClauseMatched :
    LET g == trace[CHOOSE k \in OfForm("guard", i) : TRUE]
    IN /\ ~trace[End(i)].ok
       /\ trace[End(i)].err[1] = "Unhandled exception: "
       /\ \A j \in Forms("guard") :
            Kids(j)[1] = i =>
              /\ OfForm("guard", j) # {}
              /\ \A k \in OfForm("guard", j) : trace[k].val = g.val
       /\ \A w \in Forms("with-exception-handler") :
            (w < i /\ i < End(w)) =>
              /\ OfForm("handle", w) # {}
              /\ \A h \in OfForm("handle", w) : trace[h].arg = g.val

\* the applications of the record procedures of one kind
Natives(kind) == {e \in Events("native") : trace[e].kind = kind}

\* C22: a constructor declared with fields f1..fn succeeds exactly when it
\* is given n arguments and then returns a fresh record, leaving every
\* existing record as it was; the accessor of fi applied to that record
\* returns the i-th argument, and the accessor of a field that is not among
\* f1..fn fails.
C22_ConstructorPopulatesFields ==
  /\ \A c \in Natives("constructor") :
       LET ev == trace[c]
       IN /\ ev.ok <=> Len(ev.args) = Len(ev.proc.constructor_fields)
          /\ ev.ok => /\ ev.val.t = "record"
                      /\ ev.val.id = Len(ev.pre) + 1
                      /\ Len(ev.post) = Len(ev.pre) + 1
                      /\ \A k \in DOMAIN ev.pre : ev.post[k] = ev.pre[k]
          /\ ~ev.ok => ev.post = ev.pre
  /\ \A c \in Natives("constructor"), a \in Natives("accessor") :
       (/\ c < a
        /\ trace[c].ok
        /\ trace[a].args = <<trace[c].val>>
        /\ trace[a].proc.type_name = trace[c].val.name)
       => LET fs == trace[c].proc.constructor_fields
              I == {i \in DOMAIN fs : fs[i] = trace[a].proc.field_name}
          IN /\ IF I # {}
                  THEN /\ trace[a].ok
                       /\ \A i \in I : trace[a].val = trace[c].args[i]
                  ELSE ~trace[a].ok
             /\ result.ok = trace[a].ok
             /\ result.ok => result.val = trace[a].val

\* (point-y (make-point 5 6)) has returned 6
C22_Witness ==
  /\ result.ok /\ result.val = Num(6)
  /\ \E c \in Natives("constructor"), a \in Natives("accessor") :
       /\ trace[c].args = <<Num(5), Num(6)>>
       /\ trace[a].args = <<trace[c].val>>
       /\ trace[a].proc.field_name = "y"

\* (point-z (make-point 5 6)) has failed: z is never populated
C22_UnsetReached ==
  /\ ~result.ok
  /\ \E c \in Natives("constructor"), a \in Natives("accessor") :
       /\ trace[c].ok
       /\ trace[a].args = <<trace[c].val>>
       /\ trace[a].proc.field_name = "z"
       /\ trace[a].err = <<"Field ", "z", " not found in record">>

\* a constructor given too few arguments has failed
C22_ArityReached ==
  \E c \in Natives("constructor") :
    /\ ~trace[c].ok
    /\ Len(trace[c].args) < Len(trace[c].proc.constructor_fields)

\* the record type the declarations name for each predicate
TypeOfPredicate(pred) == IF pred = "other?" THEN "other" ELSE "point"

\* C23: a predicate applied to one argument never fails and changes no
\* record; it returns #t when the argument is a record whose record type
\* has the name of the predicate's type, and #f for every other argument, a
\* record of another type and a value that is no record alike.
C23_PredicateByTypeName ==
  \A p \in Natives("predicate") :
    LET ev == trace[p]
    IN Len(ev.args) = 1 =>
         /\ ev.ok
         /\ ev.post = ev.pre
         /\ ev.proc.type_name = TypeOfPredicate(ev.proc.name)
         /\ ev.val =
              Bool(/\ ev.args[1].t = "record"
                   /\ record_types[ev.pre[ev.args[1].id].type_info].name
                        = TypeOfPredicate(ev.proc.name))
         /\ result.ok /\ result.val = ev.val

\* (point? (make-point 5 6)) has returned #t
C23_Witness ==
  /\ result.ok /\ result.val = Bool(TRUE)
  /\ \E c \in Natives("constructor"), p \in Natives("predicate") :
       /\ trace[c].proc.name = "make-point"
       /\ trace[p].proc.name = "point?"
       /\ trace[p].args = <<trace[c].val>>

\* (point? (make-other 8)) and (point? 42) have returned #f
C23_OtherTypeReached ==
  /\ result.ok /\ result.val = Bool(FALSE)
  /\ \E c \in Natives("constructor"), p \in Natives("predicate") :
       /\ trace[c].proc.name = "make-other"
       /\ trace[p].proc.name = "point?"
       /\ trace[p].args = <<trace[c].val>>

C23_NonRecordReached ==
  /\ result.ok /\ result.val = Bool(FALSE)
  /\ \E p \in Natives("predicate") : trace[p].args = <<Num(42)>>

\* a record of the second type named point has satisfied point?
C23_SameNameReached ==
  /\ result.ok /\ result.val = Bool(TRUE)
  /\ \E c \in Natives("constructor"), p \in Natives("predicate") :
       /\ trace[c].proc.name = "make-pt"
       /\ trace[p].proc.name = "point?"
       /\ trace[p].args = <<trace[c].val>>

\* the record type of the record a value refers to, in the arena recs
TypeOf(v, recs) == record_types[recs[v.id].type_info]

\* post is pre with value written under field of record id, nothing else
OverwritesOnly(pre, post, id, field, value) ==
  /\ Len(post) = Len(pre)
  /\ \A k \in DOMAIN pre :
       /\ post[k].type_info = pre[k].type_info
       /\ DOMAIN post[k].values =
            DOMAIN pre[k].values \cup (IF k = id THEN {field} ELSE {})
       /\ \A f \in DOMAIN post[k].values :
            post[k].values[f] =
              IF k = id /\ f = field THEN value ELSE pre[k].values[f]

\* the mutator application at m is given a record whose type has the
\* mutator's type name
Matches(m) ==
  /\ trace[m].args[1].t = "record"
  /\ TypeOf(trace[m].args[1], trace[m].pre).name = trace[m].proc.type_name

\* ... and that type declares the mutator's field mutable
DeclaredMutable(m) ==
  /\ Matches(m)
  /\ \E k \in DOMAIN TypeOf(trace[m].args[1], trace[m].pre).fields :
       TypeOf(trace[m].args[1], trace[m].pre).fields[k]
         = <<trace[m].proc.field_name, TRUE>>

\* what a mutator application that is due to succeed (applies) does
MutatorEffect(m, applies) ==
  LET ev == trace[m]
  IN IF applies
       THEN /\ ev.ok
            /\ OverwritesOnly(ev.pre, ev.post, ev.args[1].id,
                              ev.proc.field_name, ev.args[2])
            /\ \A a \in Natives("accessor") :
                 (/\ a > m
                  /\ trace[a].args = <<Record(ev.args[1].id, ev.args[1].name)>>
                  /\ trace[a].proc.field_name = ev.proc.field_name
                  /\ trace[a].proc.type_name = ev.proc.type_name)
                 => trace[a].ok /\ trace[a].val = ev.args[2]
            /\ \A a \in Natives("accessor") :
                 (a > m /\ trace[a].ok)
                 => /\ trace[a].pre = ev.post
                    /\ trace[a].val =
                         ev.post[trace[a].args[1].id].values[trace[a].proc.field_name]
       ELSE /\ ~ev.ok
            /\ ev.post = ev.pre
            /\ records = ev.pre

\* C24 as stated: a mutator applied to a record of the matching type
\* overwrites its field of that record in place, and applied to a record of
\* another type or to a non-record it fails and changes no record.
C24_MutatorOverwritesMatchingType ==
  \A m \in Natives("mutator") :
    Len(trace[m].args) = 2 => MutatorEffect(m, Matches(m))

\* C24, amended: a mutator applied to a record whose type has the mutator's
\* type name and declares the field mutable overwrites exactly that field
\* of exactly that record in place: the accessor returns the new value
\* through every reference to the record, every other field and record is
\* unchanged; applied to any other record or to a non-record it fails and
\* changes no record.
C24_MutatorOverwritesInPlace ==
  \A m \in Natives("mutator") :
    Len(trace[m].args) = 2 => MutatorEffect(m, DeclaredMutable(m))

\* (begin (set-point-x! p 7) (point-x q)) has returned 7
C24_Witness ==
  /\ result.ok /\ result.val = Num(7)
  /\ \E m \in Natives("mutator"), a \in Natives("accessor") :
       /\ m < a
       /\ trace[m].proc.name = "set-point-x!"
       /\ trace[a].proc.name = "point-x"
       /\ trace[a].args[1] = trace[m].args[1]
       /\ \E i \in Events("lookup") : trace[i].name = "q" /\ trace[i].ok

\* a mutator has failed on a record of another type and on a number
C24_OtherTypeReached ==
  \E m \in Natives("mutator") :
    /\ ~trace[m].ok
    /\ trace[m].args[1].t = "record"
    /\ trace[m].args[1].name # trace[m].proc.type_name

C24_NonRecordReached ==
  \E m \in Natives("mutator") : ~trace[m].ok /\ trace[m].args[1] = Num(42)

\* the record r of equal contents kept its field after p was overwritten
C24_OtherRecordReached ==
  /\ result.ok /\ result.val = Num(5)
  /\ \E m \in Natives("mutator"), a \in Natives("accessor") :
       /\ m < a /\ trace[m].ok
       /\ trace[m].proc.name = "set-point-x!"
       /\ trace[a].proc.name = "point-x"
       /\ trace[a].args[1] # trace[m].args[1]

\* the environments of the libraries the registry holds
LibraryEnvs == {libraries[n].environment : n \in DOMAIN libraries}

\* what an import may change: the table of the importing environment, at
\* the names the library exports
ImportsOnlyExports(ev) ==
  /\ Len(ev.post) = Len(ev.pre)
  /\ \A k \in DOMAIN ev.pre :
       /\ ev.post[k].parent = ev.pre[k].parent
       /\ k # ev.target_env => ev.post[k] = ev.pre[k]
  /\ DOMAIN ev.pre[ev.target_env].bindings
       \subseteq DOMAIN ev.post[ev.target_env].bindings
  /\ \A n \in DOMAIN ev.post[ev.target_env].bindings :
       \/ \E k \in DOMAIN ev.exports : ev.exports[k] = n
       \/ /\ n \in DOMAIN ev.pre[ev.target_env].bindings
          /\ ev.post[ev.target_env].bindings[n]
               = ev.pre[ev.target_env].bindings[n]

\* a name the library defines and does not export is after the import as
\* visible or unbound from the importing environment as it was before
PrivateAsBefore(ev) ==
  \A n \in DOMAIN ev.pre[ev.lib_env].bindings :
    (\A k \in DOMAIN ev.exports : ev.exports[k] # n)
      => lookup_variable(n, ev.target_env, ev.post)
           = lookup_variable(n, ev.target_env, ev.pre)

\* a closure made in a library environment runs with every definition of
\* the library in sight, exported or not, wherever it is called from
SeesLibrary(ev) ==
  procs[ev.proc].kind \in {"lambda", "define"} /\ procs[ev.proc].env \in LibraryEnvs
    => \A n \in DOMAIN ev.pre[procs[ev.proc].env].bindings :
         lookup_variable(n, ev.new_env, ev.pre)
           = IF n \in DOMAIN ev.pre[ev.new_env].bindings
               THEN Some(ev.pre[ev.new_env].bindings[n])
               ELSE Some(ev.pre[procs[ev.proc].env].bindings[n])

\* C25: an import binds in the importing environment only names of the
\* library's export list; a name the library body defines without exporting
\* it is not bound by the import (a reference to it from the importing
\* environment is unbound unless it was visible before), and an exported
\* procedure called from the importing environment still sees the library's
\* non-exported definitions.
C25_ImportBindsOnlyExports ==
  /\ \A k \in Events("import") :
       ImportsOnlyExports(trace[k]) /\ PrivateAsBefore(trace[k])
  /\ \A k \in Events("apply") : SeesLibrary(trace[k])

\* (my lib) exports public-func only; after the import at top level the call
\* of public-func from the global environment returned what private-helper
\* returns, the library's secret
C25_Witness ==
  /\ \E k \in Events("import") :
       /\ trace[k].name = <<"my", "lib">>
       /\ trace[k].exports = <<"public-func">>
       /\ trace[k].target_env = 1
       /\ "private-helper" \in DOMAIN trace[k].pre[trace[k].lib_env].bindings
       /\ "public-func" \in DOMAIN envs[1].bindings
       /\ "private-helper" \notin DOMAIN envs[1].bindings
  /\ \E k \in Events("apply") :
       /\ procs[trace[k].proc].env \in LibraryEnvs
       /\ \E j \in Events("lookup") :
            /\ j > k
            /\ trace[j].name = "private-helper"
            /\ trace[j].env = trace[k].new_env
            /\ trace[j].ok
  /\ result.ok /\ result.val = Num(7)

\* after the import the reference to the private name failed as unbound
C25_PrivateUnboundReached ==
  /\ \E k \in Events("import") :
       "private-helper" \in DOMAIN trace[k].pre[trace[k].lib_env].bindings
  /\ ~result.ok
  /\ result.err = <<"Undefined variable: ", "private-helper">>

\* the importing environment had bound the private name itself
C25_AlreadyBoundReached ==
  /\ \E k \in Events("import") :
       /\ "private-helper" \in DOMAIN trace[k].pre[trace[k].lib_env].bindings
       /\ "private-helper" \in DOMAIN trace[k].pre[trace[k].target_env].bindings
  /\ result.ok /\ result.val = Num(1)

\* an import of the library named (example private)
C25_ExampleReached ==
  /\ \E k \in Events("import") :
       /\ trace[k].name = <<"example", "private">>
       /\ "private-helper" \in DOMAIN trace[k].pre[trace[k].lib_env].bindings
       /\ "public-func" \in DOMAIN trace[k].post[trace[k].target_env].bindings
  /\ result.ok /\ result.val = Real(13)

\* the parentless environment a chain of parent links ends in
RECURSIVE Root(_, _)
Root(env, es) == IF es[env].parent = 0 THEN env ELSE Root(es[env].parent, es)

\* C26: the library registry belongs to the interpreter instance: an import
\* evaluated through one instance finds only libraries that were registered
\* through the same instance, so a library defined through the first
\* instance is not found through a second, freshly created one.
C26_RegistryPerInstance ==
  \A k \in Events("import") :
    Root(trace[k].lib_env, envs) = Root(trace[k].target_env, envs)

\* what the instances do keep apart: the global environment of an instance
\* is bound only by evaluations that ran through it or imported into it
C26_GlobalsPerInstance ==
  \A k \in Events("define") \cup Events("set") :
    \A e \in DOMAIN trace[k].pre :
      Root(e, trace[k].pre) # Root(trace[k].env, trace[k].pre)
        => trace[k].post[e] = trace[k].pre[e]

\* the second instance imported the library the first instance registered
\* and read its secret
C26_SharedReached ==
  /\ Len(interpreters) = 2
  /\ \E k \in Events("import") :
       /\ Root(trace[k].lib_env, envs) = interpreters[1]
       /\ Root(trace[k].target_env, envs) = interpreters[2]
  /\ result.ok /\ result.val = Num(7)

IdentityKinds ==
  {"environment", "record_type", "record", "bytevector", "library"}

\* the values a value is built of, itself included
RECURSIVE Parts(_)
Parts(v) ==
  {v} \cup (CASE v.t = "pair" -> Parts(v.car) \cup Parts(v.cdr)
              [] v.t = "vector" ->
                   UNION {Parts(v.elems[i]) : i \in DOMAIN v.elems}
              [] OTHER -> {})

\* the comparison the state records
Compared == {trace[k] : k \in Events("eq")}

\* C27: equality on Procedure, Environment, RecordType, Record, Bytevector
\* and Library is reference identity (a value of these kinds equals itself
\* and no other object, whatever its contents); equality on Pair and Vector
\* is structural, element by element.
C27_IdentityForHandles ==
  \A c \in Compared :
    /\ c.a.t = c.b.t /\ c.a.t \in IdentityKinds \cup {"proc"}
         => (c.val <=> c.a.id = c.b.id)
    /\ c.a.t = "pair" /\ c.b.t = "pair"
         => (c.val <=> eq(c.a.car, c.b.car) /\ eq(c.a.cdr, c.b.cdr))
    /\ c.a.t = "vector" /\ c.b.t = "vector"
         => (c.val <=> /\ Len(c.a.elems) = Len(c.b.elems)
                       /\ \A i \in DOMAIN c.a.elems \cap DOMAIN c.b.elems :
                            eq(c.a.elems[i], c.b.elems[i]))

\* C27, amended: a Procedure equals no value, itself included; Environment,
\* RecordType, Record, Bytevector and Library compare by identity; Pair and
\* Vector compare element by element, so that two values are equal exactly
\* when they are built alike of equal atoms and the same objects and hold no
\* procedure.
C27_IdentityExceptProcedures ==
  \A c \in Compared :
    /\ c.a.t = c.b.t /\ c.a.t \in IdentityKinds => (c.val <=> c.a.id = c.b.id)
    /\ c.a.t = "proc" \/ c.b.t = "proc" => ~c.val
    /\ c.a.t = "pair" /\ c.b.t = "pair"
         => (c.val <=> eq(c.a.car, c.b.car) /\ eq(c.a.cdr, c.b.cdr))
    /\ c.a.t = "vector" /\ c.b.t = "vector"
         => (c.val <=> /\ Len(c.a.elems) = Len(c.b.elems)
                       /\ \A i \in DOMAIN c.a.elems \cap DOMAIN c.b.elems :
                            eq(c.a.elems[i], c.b.elems[i]))
    /\ c.val <=> (c.a = c.b /\ \A v \in Parts(c.a) : v.t # "proc")

\* two records of one type and equal field values, two objects: unequal
C27_Witness ==
  \E c \in Compared :
    /\ c.a.t = "record" /\ c.b.t = "record"
    /\ c.a.id # c.b.id
    /\ records[c.a.id] = records[c.b.id]
    /\ ~c.val

\* a record compared with itself, reached under a second name
C27_SameObjectReached ==
  /\ "r" \in DOMAIN envs[1].bindings /\ "s" \in DOMAIN envs[1].bindings
  /\ \E c \in Compared :
       /\ c.a = envs[1].bindings["r"] /\ c.b = envs[1].bindings["s"]
       /\ c.a.t = "record" /\ c.a.id = c.b.id
       /\ c.val

\* two libraries of one name and equal contents, two objects: unequal
C27_LibrariesReached ==
  \E c \in Compared :
    /\ c.a.t = "library" /\ c.b.t = "library"
    /\ c.a.id # c.b.id /\ c.a.name = c.b.name
    /\ envs[c.a.id] = envs[c.b.id]
    /\ ~c.val

\* pairs of the same record are equal, pairs of two like records are not
C27_StructuralReached ==
  \E c \in Compared :
    /\ c.a.t = "pair" /\ c.b.t = "pair"
    /\ c.a.car.t = "record" /\ c.b.car.t = "record"
    /\ c.val

\* a procedure compared with itself is unequal
C27_ProcedureReached ==
  \E c \in Compared :
    c.a.t = "proc" /\ c.b.t = "proc" /\ c.a.id = c.b.id /\ ~c.val

\* the failure an evaluation started with: the first evaluation after event
\* `from` that ended in a failure is the innermost one
Origin(from) ==
  LET failed == {j \in Events("done") : j > from /\ ~trace[j].ok}
  IN trace[CHOOSE j \in failed : \A i \in failed : j <= i].err

\* a closure hands on the failure of its body as it is
BodyFailureUnchanged ==
  \A k \in Events("ret") :
    ~trace[k].ok /\ k > 1 /\ trace[k - 1].op = "done"
      => trace[k].err = trace[k - 1].err

\* a guard binds what it binds when its body is the failing expression itself
GuardPayloadUnchanged ==
  \A k \in Events("guard") :
    trace[k].val =
      (IF starts_with_exception(Origin(trace[k].form))
         THEN Sym(Flat(trim_start_matches_exception(Origin(trace[k].form))))
         ELSE Sym(Flat(Origin(trace[k].form))))

\* a handler receives what it receives when the body of the thunk is the
\* failing expression itself
HandlerPayloadUnchanged ==
  \A k \in Events("handle") :
    trace[k].arg = Sym(Flat(to_string(Origin(trace[k].form))))

\* C28: a failure inside a procedure body leaves the application unchanged:
\* the failure the caller sees, the payload a guard binds and the payload a
\* handler receives are those of the failing expression evaluated directly,
\* however many closure calls lie between.
C28_FailureCrossesCallsUnchanged ==
  BodyFailureUnchanged /\ GuardPayloadUnchanged /\ HandlerPayloadUnchanged

\* (guard (e (#t e)) ((lambda () (raise 'boom)))): the guard bound the text
\* of the failure with the prefix of the closure
C28_PrefixedReached ==
  /\ \E k \in Events("guard") :
       /\ Origin(trace[k].form) = <<"Exception: ", "Symbol(", "boom", ")">>
       /\ trace[k].cause = <<"Runtime error: ", "Exception: ", "Symbol(", "boom", ")">>
  /\ result.ok
  /\ result.val = Sym("Runtime error: Exception: Symbol(boom)")

\* the import gave each exported name the binding the library's own table
\* had for it at that moment, and left a name the library lacks alone
CopiesExports(ev) ==
  \A k \in DOMAIN ev.exports :
    LET n == ev.exports[k]
    IN IF n \in DOMAIN ev.pre[ev.lib_env].bindings
         THEN /\ n \in DOMAIN ev.post[ev.target_env].bindings
              /\ ev.post[ev.target_env].bindings[n]
                   = ev.pre[ev.lib_env].bindings[n]
         ELSE /\ n \in DOMAIN ev.post[ev.target_env].bindings
                   <=> n \in DOMAIN ev.pre[ev.target_env].bindings
              /\ n \in DOMAIN ev.pre[ev.target_env].bindings
                   => ev.post[ev.target_env].bindings[n]
                        = ev.pre[ev.target_env].bindings[n]

\* after the import, a define or set! that writes the library's table leaves
\* the importer's table alone, and the other way round
KeptApart(ev, later) ==
  ev.lib_env # ev.target_env
    => /\ later.post[ev.lib_env] # later.pre[ev.lib_env]
            => later.post[ev.target_env] = later.pre[ev.target_env]
       /\ later.post[ev.target_env] # later.pre[ev.target_env]
            => later.post[ev.lib_env] = later.pre[ev.lib_env]

\* registering a library under the name again leaves what was imported
RegisteredAgain(ev, later) ==
  later.name = ev.name
    => /\ later.envs[ev.target_env] = later.before[ev.target_env]
       /\ later.envs[ev.lib_env] = later.before[ev.lib_env]

\* C29: (import L) copies the bindings the exported names have in the
\* library's own environment at the moment of the import; afterwards a
\* define or set! inside the library does not change the importer's binding,
\* a set! of the imported name in the importer does not change the
\* library's, and registering a library of the same name again changes no
\* binding already imported.
C29_ImportCopiesBindings ==
  \A k \in Events("import") :
    /\ CopiesExports(trace[k])
    /\ \A j \in Events("define") \cup Events("set") :
         j > k => KeptApart(trace[k], trace[j])
    /\ \A j \in Events("library") :
         j > k => RegisteredAgain(trace[k], trace[j])

\* the import of (example math), whose body defines square as 5, bound
\* square to a procedure
C29_BuiltInReached ==
  /\ \E k \in Events("import") :
       /\ trace[k].name = <<"example", "math">>
       /\ trace[k].pre[trace[k].lib_env].bindings["square"] = Num(5)
       /\ trace[k].post[trace[k].target_env].bindings["square"].t = "proc"
  /\ result.ok /\ result.val.t = "proc"

\* the library set its counter to 5 through bump!, the importer still
\* reads 0
C29_CopyKeptReached ==
  /\ \E k \in Events("import") : \E j \in Events("set") :
       /\ j > k
       /\ trace[k].name = <<"my", "lib">>
       /\ "counter" \in DOMAIN trace[k].post[trace[k].target_env].bindings
       /\ trace[j].post[trace[k].lib_env].bindings["counter"] = Num(5)
       /\ trace[j].post[trace[k].target_env].bindings["counter"] = Num(0)
  /\ result.ok /\ result.val = Num(0)

\* the events that carry the environments before and after what they did
TableWrites == Events("define") \cup Events("set") \cup Events("import")

\* C30: the parent links are acyclic and finite: the parent of an
\* environment is an environment that existed when it was created, only the
\* global environment of an interpreter has none, and the chain of every
\* environment ends there; define, set! and import change no parent link.
C30_ParentLinksAcyclic ==
  /\ \A e \in DOMAIN envs :
       /\ envs[e].parent \in 0..(e - 1)
       /\ envs[e].parent = 0 <=> \E i \in DOMAIN interpreters : interpreters[i] = e
  /\ \A e \in DOMAIN envs :
       /\ Len(Chain(e, envs)) <= Len(envs)
       /\ \E i \in DOMAIN interpreters : Root(e, envs) = interpreters[i]
  /\ \A k \in TableWrites :
       /\ Len(trace[k].pre) = Len(trace[k].post)
       /\ \A e \in DOMAIN trace[k].pre :
            trace[k].post[e].parent = trace[k].pre[e].parent

\* after an import, the call of an imported procedure made an environment
\* whose parent is the library's environment, a chain of three
C30_Witness ==
  /\ \E e \in DOMAIN envs : Len(Chain(e, envs)) >= 3
  /\ \E n \in DOMAIN libraries :
       \E e \in DOMAIN envs :
         /\ envs[e].parent = libraries[n].environment
         /\ libraries[n].environment # 1
  /\ TableWrites # {}

====
